---------------------------- MODULE Spec2Model ----------------------------
(***************************************************************************)
(* Atrium: the bucket-size aggregator (src/src/server/bucket-size.ts).     *)
(*                                                                         *)
(* The shared key-value store (Redis) is one map from keys to entries with *)
(* a time-to-live.  Every invocation of calculateBucketSizeWithLock is a   *)
(* process of its own; an action is one await point of the function: the   *)
(* store or upstream operation it waits for together with the synchronous  *)
(* code that runs until the next await.  Time is in milliseconds and       *)
(* advances between the actions.                                           *)
(***************************************************************************)
EXTENDS Integers, Sequences, FiniteSets, TLC

(***************************************************************************)
(* Bounds of the model.                                                    *)
(***************************************************************************)
\* number of calculateBucketSizeWithLock invocations
NumInvocations == 2
\* short clock advances (of SmallStepSeconds each) in a behaviour
MaxSmallTicks == 1
\* long clock advances (an hour less one short advance) in a behaviour
MaxLongTicks == 1
\* length of a short clock advance, in seconds: longer than the duration
\* limit (300 s) and than the lock TTL (360 s)
SmallStepSeconds == 400
\* config.BUCKET_SIZE_MAX_OBJECTS, scaled down (default 1000000)
BUCKET_SIZE_MAX_OBJECTS == 4
\* MaxKeys of ListObjectsV2Command, scaled down (1000 in the source)
MaxKeys == 2
\* number of HTTP requests and direct calls of the listing cache
NumRequests == 2
\* clock advances of CacheStepSeconds each while the listing cache is called
MaxCacheTicks == 2
\* length of such an advance, in seconds: shorter than the time-to-live of a
\* cached listing (300 s), two of them longer
CacheStepSeconds == 200
\* the clock steps of the session store
MaxSessionTicks == 3
SessionStepSeconds == 43200
\* cycles of the scheduler
MaxCycles == 1

(***************************************************************************)
(* Program constants.                                                      *)
(***************************************************************************)
BUCKET_SIZE_MAX_DURATION_MS == 300000
S3_LIST_CACHE_TTL_SECONDS == 300
SESSION_TTL_SECONDS == 86400
\* 86400 * 7
trackedSessionBucketsTTLSeconds == 604800

Invocations == 1..NumInvocations
Buckets == {"b1", "b2"}
AccessKeys == {"AK1"}

HourMs == 1000 * 60 * 60
SmallStepMs == SmallStepSeconds * 1000
LongStepMs == HourMs - SmallStepMs

\* an object of the upstream bucket: Size may be missing (item.Size undefined)
Obj(n) == [Size |-> n]
NoSizeObj == [Key |-> "k"]
\* what a bucket can hold: one object; three, one of them without Size; four; five
BucketContents ==
  { <<Obj(2)>>,
    <<Obj(1), NoSizeObj, Obj(2)>>,
    <<Obj(1), Obj(1), Obj(1), Obj(1)>>,
    <<Obj(2), Obj(1), NoSizeObj, Obj(1), Obj(1)>> }

\* errors the upstream client can throw
UpstreamErrors ==
  { [isObject |-> TRUE, isError |-> TRUE, Code |-> "Forbidden", code |-> "", name |-> "Error",
     status |-> 0, message |-> "forbidden"],
    [isObject |-> TRUE, isError |-> TRUE, Code |-> "", code |-> "", name |-> "InvalidAccessKeyId",
     status |-> 403, message |-> "The key does not exist"],
    [isObject |-> TRUE, isError |-> TRUE, Code |-> "", code |-> "", name |-> "SlowDown",
     status |-> 503, message |-> "Please reduce your request rate"],
    [isObject |-> FALSE, isError |-> FALSE, Code |-> "", code |-> "", name |-> "",
     status |-> 0, message |-> ""] }

Max(a, b) == IF a >= b THEN a ELSE b
Min(a, b) == IF a <= b THEN a ELSE b
\* Math.ceil(a / b) for a >= 0, b > 0
Ceil(a, b) == (a + b - 1) \div b

(***************************************************************************)
(* Strings: the characters of the model and their UTF-8 bytes, the string  *)
(* methods the program calls, and base64url.                               *)
(***************************************************************************)
Chars == <<"-", ".", "/", "1", "2", "a", "b", "c", "t", "x">>
CharCodes == <<45, 46, 47, 49, 50, 97, 98, 99, 116, 120>>
CharAt(s, i) == SubSeq(s, i, i)
CharCodeAt(s, i) == CharCodes[CHOOSE j \in 1..Len(Chars) : Chars[j] = CharAt(s, i)]
\* a byte that is none of the model's characters reads back as "?"
FromCharCode(n) ==
  IF \E j \in 1..Len(CharCodes) : CharCodes[j] = n
  THEN Chars[CHOOSE j \in 1..Len(CharCodes) : CharCodes[j] = n]
  ELSE "?"
Utf8Bytes(s) == [i \in 1..Len(s) |-> CharCodeAt(s, i)]
RECURSIVE Utf8String(_)
Utf8String(bytes) ==
  IF bytes = <<>> THEN "" ELSE FromCharCode(Head(bytes)) \o Utf8String(Tail(bytes))

StartsWith(s, p) == Len(p) <= Len(s) /\ SubSeq(s, 1, Len(p)) = p
EndsWith(s, p) == Len(p) <= Len(s) /\ SubSeq(s, Len(s) - Len(p) + 1, Len(s)) = p
\* s.indexOf(c) + 1 and s.lastIndexOf(c) + 1 for a character c
IndexOf(s, c) ==
  IF \E i \in 1..Len(s) : CharAt(s, i) = c
  THEN CHOOSE i \in 1..Len(s) : CharAt(s, i) = c /\ \A j \in 1..(i - 1) : CharAt(s, j) # c
  ELSE 0
LastIndexOf(s, c) ==
  IF \E i \in 1..Len(s) : CharAt(s, i) = c
  THEN CHOOSE i \in 1..Len(s) : CharAt(s, i) = c /\ \A j \in (i + 1)..Len(s) : CharAt(s, j) # c
  ELSE 0
\* s.split(c)
RECURSIVE Split(_, _)
Split(s, c) ==
  LET i == IndexOf(s, c) IN
  IF i = 0 THEN <<s>>
  ELSE <<SubSeq(s, 1, i - 1)>> \o Split(SubSeq(s, i + 1, Len(s)), c)
\* parts.filter(Boolean)
RECURSIVE FilterBoolean(_)
FilterBoolean(parts) ==
  IF parts = <<>> THEN <<>>
  ELSE (IF Head(parts) = "" THEN <<>> ELSE <<Head(parts)>>) \o FilterBoolean(Tail(parts))

Base64UrlAlphabet == "ABCDEFGHIJKLMNOPQRSTUVWXYZabcdefghijklmnopqrstuvwxyz0123456789-_"
Base64UrlChar(i) == CharAt(Base64UrlAlphabet, i + 1)
Base64UrlIndex(c) == (CHOOSE i \in 1..64 : CharAt(Base64UrlAlphabet, i) = c) - 1
\* three bytes to four characters, no padding
RECURSIVE EncodeBytes(_)
EncodeBytes(bytes) ==
  IF Len(bytes) = 0 THEN ""
  ELSE IF Len(bytes) = 1
  THEN Base64UrlChar(bytes[1] \div 4) \o Base64UrlChar((bytes[1] % 4) * 16)
  ELSE IF Len(bytes) = 2
  THEN Base64UrlChar(bytes[1] \div 4)
       \o Base64UrlChar((bytes[1] % 4) * 16 + bytes[2] \div 16)
       \o Base64UrlChar((bytes[2] % 16) * 4)
  ELSE Base64UrlChar(bytes[1] \div 4)
       \o Base64UrlChar((bytes[1] % 4) * 16 + bytes[2] \div 16)
       \o Base64UrlChar((bytes[2] % 16) * 4 + bytes[3] \div 64)
       \o Base64UrlChar(bytes[3] % 64)
       \o EncodeBytes(SubSeq(bytes, 4, Len(bytes)))
\* four characters to three bytes; a last group of one character is dropped
RECURSIVE DecodeChars(_)
DecodeChars(s) ==
  LET ix(i) == Base64UrlIndex(CharAt(s, i)) IN
  IF Len(s) <= 1 THEN <<>>
  ELSE IF Len(s) = 2 THEN <<ix(1) * 4 + ix(2) \div 16>>
  ELSE IF Len(s) = 3
  THEN <<ix(1) * 4 + ix(2) \div 16, (ix(2) % 16) * 16 + ix(3) \div 4>>
  ELSE <<ix(1) * 4 + ix(2) \div 16, (ix(2) % 16) * 16 + ix(3) \div 4, (ix(3) % 4) * 64 + ix(4)>>
       \o DecodeChars(SubSeq(s, 5, Len(s)))

(***************************************************************************)
(* Keys of the store.                                                      *)
(***************************************************************************)
\* the strings the model encodes: bucket names, prefixes, continuation tokens
SegmentValues == {"", "b1", "b2", "t1", "a/", "a/b/", "ab/", "x/", "a//"}
\* Buffer.from(value, "utf8").toString("base64url"), computed once for each
EncodedSegments == [value \in SegmentValues |-> EncodeBytes(Utf8Bytes(value))]
encodeSegment(value) == EncodedSegments[value]

\* Buffer.from(value, "base64url").toString("utf8"); it never throws
decodeSegment(value) == Utf8String(DecodeChars(value))

\* sha256(accessKeyId).hex.slice(0, 16) of the model's access keys
getCredentialScope(accessKeyId) ==
  CASE accessKeyId = "AK1" -> "5e2e84497339a607"
    [] accessKeyId = "AK2" -> "e462538fb939974d"

redisKeyPrefix == "atrium"

\* (mutant) the credential scope left out of the key
bucketSizeKeyOfBucket(bucketName, accessKeyId) ==
  redisKeyPrefix \o ":bucket-size:" \o encodeSegment(bucketName)
bucketSizeKey(bucketName, accessKeyId) ==
  redisKeyPrefix \o ":bucket-size:" \o getCredentialScope(accessKeyId) \o ":" \o encodeSegment(bucketName)

bucketSizeLockKey(bucketName, accessKeyId) ==
  redisKeyPrefix \o ":lock:bucket-size:" \o getCredentialScope(accessKeyId) \o ":" \o encodeSegment(bucketName)

\* a value that is no string: an absent session token or continuation token
Undefined == "<undefined>"
\* null, or undefined where a value was expected
Absent == [absent |-> TRUE]
\* value || ""
OrEmpty(value) == IF value = Undefined THEN "" ELSE value

\* session tokens of the model and the hex sha256 digests of them
Tokens == {"s1", "s2"}
hashSessionToken(token) ==
  CASE token = "s1" -> "e8bc163c82eee18733288c7d4ac636db3a6deb013ef2d37b68322be20edc45cc"
    [] token = "s2" -> "ad328846aa18b32a335816374511cac1063c704b8c57999e51da9f908290a7a4"

listCacheKeyPrefix == redisKeyPrefix \o ":cache_s3_list"

listCacheBucketNamespace(sessionToken, bucket) ==
  listCacheKeyPrefix \o ":" \o hashSessionToken(sessionToken) \o ":" \o encodeSegment(bucket)

\* (mutant) the continuation token left out of the key
listCacheKeyWithoutToken(sessionToken, bucket, prefix, continuationToken, maxKeys) ==
  listCacheBucketNamespace(sessionToken, bucket) \o ":" \o encodeSegment(prefix)
    \o ":" \o encodeSegment("") \o ":" \o ToString(maxKeys)
listCacheKey(sessionToken, bucket, prefix, continuationToken, maxKeys) ==
  listCacheBucketNamespace(sessionToken, bucket) \o ":" \o encodeSegment(prefix)
    \o ":" \o encodeSegment(OrEmpty(continuationToken)) \o ":" \o ToString(maxKeys)

\* the listings the model's requests ask for: every prefix with the first
\* page of one session and bucket, and one more listing for each other value
\* of a component
Prefixes == {"", "a/", "a/b/", "ab/", "x/", "a//"}
ListTuple(t, b, p, c, n) ==
  [sessionToken |-> t, bucket |-> b, prefix |-> p, continuationToken |-> c, maxKeys |-> n]
ListTuples ==
  { ListTuple("s1", "b1", p, Undefined, 1) : p \in Prefixes } \cup
  { ListTuple("s1", "b1", "a/", "t1", 1), ListTuple("s1", "b1", "a/", Undefined, 2),
    ListTuple("s1", "b2", "a/", Undefined, 1), ListTuple("s2", "b1", "a/", Undefined, 1) }
\* the key of each listing, computed once
ListCacheKeyOf ==
  [q \in ListTuples |->
     listCacheKey(q.sessionToken, q.bucket, q.prefix, q.continuationToken, q.maxKeys)]
KeyOf(q) == ListCacheKeyOf[q]
ListCacheKeys == { KeyOf(q) : q \in ListTuples }

sessionKey(token) == redisKeyPrefix \o ":session:" \o token
SessionKeys == { sessionKey(token) : token \in Tokens }

\* (mutant) the tracked-bucket sets kept under the prefix of the sessions
sessionBucketKeyUnderSession(token) == redisKeyPrefix \o ":session:buckets:" \o token
sessionBucketKey(token) == redisKeyPrefix \o ":session-buckets:" \o token
SessionBucketKeys == { sessionBucketKey(token) : token \in Tokens }

Keys ==
  { bucketSizeKey(b, k) : b \in Buckets, k \in AccessKeys \cup {"AK2"} } \cup
  { bucketSizeLockKey(b, k) : b \in Buckets, k \in AccessKeys } \cup
  ListCacheKeys \cup SessionKeys \cup SessionBucketKeys

NoEntry == [exists |-> FALSE]
\* redis GET: the value, or null
RedisGet(store, key) == IF store[key].exists THEN store[key].value ELSE Absent
\* the expiry of an entry that has none
NoExpiry == -1
Entry(v, exp) == [exists |-> TRUE, value |-> v, expiresAt |-> exp]

(***************************************************************************)
(* Pure helpers of bucket-size.ts.                                         *)
(***************************************************************************)
\* (mutant) the thresholds belong to the lower tier
getBucketSizeCacheTtlSecondsInclusive(objectCount) ==
  IF objectCount <= 10000 THEN 3600
  ELSE IF objectCount <= 100000 THEN 86400
  ELSE 86400 * 7
getBucketSizeCacheTtlSeconds(objectCount) ==
  IF objectCount < 10000 THEN 3600
  ELSE IF objectCount < 100000 THEN 86400
  ELSE 86400 * 7

\* storeBucketSizeResult: the store after its SET ... EX
storeBucketSizeResult(store, bucketName, accessKeyId, result, t) ==
  [store EXCEPT ![bucketSizeKey(bucketName, accessKeyId)] =
     Entry(result, t + getBucketSizeCacheTtlSeconds(result.objectCount) * 1000)]

\* (mutant) the first two tiers swapped
isBucketSizeResultFreshSwapped(result, t) ==
  LET ageMs == t - result.calculatedAt IN
  IF result.objectCount < 10000 THEN ageMs < 24 * HourMs
  ELSE IF result.objectCount < 100000 THEN ageMs < 1 * HourMs
  ELSE ageMs < 168 * HourMs

\* ageHours < h, with ageHours = (t - calculatedAt) / (1000 * 60 * 60)
isBucketSizeResultFresh(result, t) ==
  LET ageMs == t - result.calculatedAt IN
  IF result.objectCount < 10000 THEN ageMs < 1 * HourMs
  ELSE IF result.objectCount < 100000 THEN ageMs < 24 * HourMs
  ELSE ageMs < 168 * HourMs

FirstNonEmpty(a, b, c) == IF a # "" THEN a ELSE IF b # "" THEN b ELSE c

\* (mutant) the HTTP status is not looked at
isPermissionDeniedByCode(error) ==
  IF ~error.isObject THEN FALSE
  ELSE LET code == FirstNonEmpty(error.Code, error.code, error.name) IN
       code = "AccessDenied" \/ code = "Forbidden"

isPermissionDeniedError(error) ==
  IF ~error.isObject THEN FALSE
  ELSE LET code == FirstNonEmpty(error.Code, error.code, error.name) IN
       code = "AccessDenied" \/ code = "Forbidden" \/ error.status = 403

\* (mutant) the duration taken as seconds
lockTtlSecondsOfMs == Max(BUCKET_SIZE_MAX_DURATION_MS + 60, 300)
lockTtlSeconds == Max(Ceil(BUCKET_SIZE_MAX_DURATION_MS, 1000) + 60, 300)

\* config.S3_LIST_CACHE_ENABLED and config.S3_LIST_CACHE_INVALIDATION_MODE
Configs ==
  [S3_LIST_CACHE_ENABLED : BOOLEAN, S3_LIST_CACHE_INVALIDATION_MODE : {"targeted", "bucket"}]
DefaultConfig ==
  [S3_LIST_CACHE_ENABLED |-> TRUE, S3_LIST_CACHE_INVALIDATION_MODE |-> "targeted"]

Requests == 1..NumRequests
IdleRequest == [kind |-> "idle", pc |-> "idle"]

VARIABLES
  now,        \* wall clock, ms
  smallTicks, \* short clock advances taken so far
  objects,    \* upstream: bucket -> sequence of objects
  redis,      \* the shared store: key -> entry
  pc,         \* invocation -> position in calculateBucketSizeWithLock
  args,       \* invocation -> [bucketName, accessKeyId, force]
  loc,        \* invocation -> locals of calculateBucketSize(WithLock)
  status,     \* invocation -> value returned
  hist,       \* invocation -> what it did (history, not read by the program)
  config,     \* the listing-cache settings of the process
  tree,       \* upstream: bucket -> number of mutations applied to it
  rq,         \* request -> the HTTP request or cache call it is and where it stands
  flag,       \* what the feature-flag provider answers for the background calculation
  sched       \* the scheduler of the process: its job and the cycle in progress

vars ==
  <<now, smallTicks, objects, redis, pc, args, loc, status, hist, config, tree, rq, flag, sched>>

Null == 0
NoResult == [none |-> TRUE]
NoFailure == [none |-> TRUE]

\* redis GET as the aggregator uses it
Exists(key) == redis[key].exists
LockOwnerAt(key) == IF redis[key].exists THEN redis[key].value ELSE Null

\* (mutant) SET without NX: the entry is overwritten and the reply is OK
SetOverwrite(store, key, value, expiresAt) ==
  [reply |-> TRUE, store |-> [store EXCEPT ![key] = Entry(value, expiresAt)]]
\* (mutant) check-then-set gone wrong: the reply tells whether the key was
\* free, the entry is written in any case
SetThenCheck(store, key, value, expiresAt) ==
  [reply |-> ~store[key].exists, store |-> [store EXCEPT ![key] = Entry(value, expiresAt)]]
\* redis SET key value EX ttl NX: the reply and the store afterwards
SetNX(store, key, value, expiresAt) ==
  IF store[key].exists
  THEN [reply |-> FALSE, store |-> store]
  ELSE [reply |-> TRUE, store |-> [store EXCEPT ![key] = Entry(value, expiresAt)]]

\* (mutant) the ownership test inverted
IsOtherOwner(lockOwner, workerId) == lockOwner # workerId
\* lockOwner === workerId
IsLockOwner(lockOwner, workerId) == lockOwner = workerId

\* (mutant) force ignored
AlwaysChecksFreshness(force) == TRUE
\* !options?.force
ChecksFreshness(force) == ~force

InitLoc ==
  [workerId |-> Null, startedAt |-> 0, totalSize |-> 0, objectCount |-> 0,
   continuationToken |-> 0, isApproximate |-> FALSE, error |-> NoFailure,
   pending |-> NoResult, thrown |-> FALSE]

\* hist.calls counts the requests an invocation sent up to this number
MaxCallsCounted == BUCKET_SIZE_MAX_OBJECTS + 2
InitHist ==
  [calls |-> 0, acquired |-> FALSE, lockExpired |-> FALSE]

\* the upstream of the concurrency specification: a bucket of two pages and a
\* bucket of one object
DefaultObjects ==
  [b \in Buckets |-> IF b = "b1" THEN <<Obj(1), NoSizeObj, Obj(2)>> ELSE <<Obj(2)>>]

EmptyStore == [key \in Keys |-> NoEntry]

\* the answers of the feature-flag provider: the flag on, the flag off (the
\* default of a flag that is not configured), or an evaluation that throws
FlagValues == {"on", "off", "throws"}

\* the scheduler before registerBucketSizeScheduler has run
InitSched ==
  [registered |-> "pending", pc |-> "idle", cycles |-> 0, enabled |-> FALSE, keys |-> <<>>,
   token |-> "", credentials |-> Absent, buckets |-> <<>>, invocation |-> 0, calls |-> <<>>,
   failure |-> "none"]

\* the state at the start: an upstream, a store and the settings
InitFrom(upstreams, stores, configs) ==
  /\ now = 0
  /\ smallTicks = 0
  /\ objects \in upstreams
  /\ redis \in stores
  /\ pc = [w \in Invocations |-> "idle"]
  /\ args = [w \in Invocations |-> [bucketName |-> "b1", accessKeyId |-> "AK1", force |-> FALSE]]
  /\ loc = [w \in Invocations |-> InitLoc]
  /\ status = [w \in Invocations |-> "none"]
  /\ hist = [w \in Invocations |-> InitHist]
  /\ config \in configs
  /\ tree = [b \in Buckets |-> 0]
  /\ rq = [r \in Requests |-> IdleRequest]
  /\ flag = "off"
  /\ sched = InitSched

InitWith(upstreams) == InitFrom(upstreams, {EmptyStore}, {DefaultConfig})

Init == InitWith({DefaultObjects})

(***************************************************************************)
(* calculateBucketSize: the enumeration loop.                              *)
(***************************************************************************)
SizeOf(item) == IF "Size" \in DOMAIN item THEN item.Size ELSE 0

\* (mutant) totalSize assigned instead of added to
RECURSIVE AccumulateAssign(_, _)
AccumulateAssign(l, items) ==
  IF items = <<>> THEN l
  ELSE LET l1 == [l EXCEPT !.totalSize = SizeOf(Head(items)),
                           !.objectCount = @ + 1]
       IN IF l1.objectCount >= BUCKET_SIZE_MAX_OBJECTS
          THEN [l1 EXCEPT !.isApproximate = TRUE]
          ELSE AccumulateAssign(l1, Tail(items))

\* (mutant) the cap must be exceeded, not reached, inside a page
RECURSIVE AccumulateExceeds(_, _)
AccumulateExceeds(l, items) ==
  IF items = <<>> THEN l
  ELSE LET l1 == [l EXCEPT !.totalSize = @ + SizeOf(Head(items)),
                           !.objectCount = @ + 1]
       IN IF l1.objectCount > BUCKET_SIZE_MAX_OBJECTS
          THEN [l1 EXCEPT !.isApproximate = TRUE]
          ELSE AccumulateExceeds(l1, Tail(items))

\* the for-loop over response.Contents
RECURSIVE Accumulate(_, _)
Accumulate(l, items) ==
  IF items = <<>> THEN l
  ELSE LET l1 == [l EXCEPT !.totalSize = @ + SizeOf(Head(items)),
                           !.objectCount = @ + 1]
       IN IF l1.objectCount >= BUCKET_SIZE_MAX_OBJECTS
          THEN [l1 EXCEPT !.isApproximate = TRUE]
          ELSE Accumulate(l1, Tail(items))

\* (mutant) the check of the elapsed time left out
LoopTopBreaksOnCount(l, t) ==
  l.objectCount >= BUCKET_SIZE_MAX_OBJECTS
\* the two checks at the top of the do-loop
LoopTopBreaks(l, t) ==
  \/ t - l.startedAt > BUCKET_SIZE_MAX_DURATION_MS
  \/ l.objectCount >= BUCKET_SIZE_MAX_OBJECTS

\* the upstream's answer to ListObjectsV2(Bucket, MaxKeys, ContinuationToken)
PageContents(bucketName, token) ==
  SubSeq(objects[bucketName], token + 1, Min(token + MaxKeys, Len(objects[bucketName])))
NextContinuationToken(bucketName, token) ==
  IF token + MaxKeys < Len(objects[bucketName]) THEN token + MaxKeys ELSE 0

\* the value calculateBucketSize returns (durationMs and sizeFormatted, which
\* nothing reads back, are left out of the three result records)
SuccessResult(bucketName, l, t) ==
  [bucket |-> bucketName, totalSize |-> l.totalSize, objectCount |-> l.objectCount,
   isApproximate |-> l.isApproximate, isInaccessible |-> FALSE,
   calculatedAt |-> t]

\* the two results of the catch block
AccessDeniedResult(bucketName, t) ==
  [bucket |-> bucketName, totalSize |-> 0, objectCount |-> 0,
   isApproximate |-> FALSE, isInaccessible |-> TRUE, error |-> "Access denied",
   calculatedAt |-> t]
FailedResult(bucketName, error, t) ==
  [bucket |-> bucketName, totalSize |-> 0, objectCount |-> 0,
   isApproximate |-> TRUE, isInaccessible |-> FALSE,
   error |-> IF error.isError THEN error.message ELSE "Unknown error",
   calculatedAt |-> t]

\* top of one loop iteration at time t: break and return, or send the next request
Iterate(w, l) ==
  IF LoopTopBreaks(l, now)
  THEN LET l1 == [l EXCEPT !.isApproximate = TRUE] IN
       /\ loc' = [loc EXCEPT ![w] =
                    [l1 EXCEPT !.pending = SuccessResult(args[w].bucketName, l1, now)]]
       /\ pc' = [pc EXCEPT ![w] = "store"]
       /\ hist' = hist
  ELSE /\ loc' = [loc EXCEPT ![w] = l]
       /\ pc' = [pc EXCEPT ![w] = "list"]
       /\ hist' = [hist EXCEPT ![w].calls = Min(@ + 1, MaxCallsCounted)]

(***************************************************************************)
(* calculateBucketSizeWithLock, one action per await.                      *)
(***************************************************************************)
\* the call, up to its first await; invocations are taken in order
Invoke(w, b, k, f) ==
  /\ pc[w] = "idle"
  /\ \A v \in Invocations : v < w => pc[v] # "idle"
  /\ args' = [args EXCEPT ![w] = [bucketName |-> b, accessKeyId |-> k, force |-> f]]
  /\ pc' = [pc EXCEPT ![w] = IF ChecksFreshness(f) THEN "getCached" ELSE "setLock"]

Start(w, b, k, f) ==
  /\ Invoke(w, b, k, f)
  /\ UNCHANGED <<flag, sched, config, tree, rq, now, smallTicks, objects, redis, loc, status, hist>>

\* (mutant) any stored result counts as fresh
GetCachedIfStored(w) ==
  LET key == bucketSizeKey(args[w].bucketName, args[w].accessKeyId) IN
  /\ pc[w] = "getCached"
  /\ IF Exists(key)
     THEN /\ pc' = [pc EXCEPT ![w] = "done"]
          /\ status' = [status EXCEPT ![w] = "already-fresh"]
     ELSE /\ pc' = [pc EXCEPT ![w] = "setLock"]
          /\ status' = status
  /\ UNCHANGED <<flag, sched, config, tree, rq, now, smallTicks, objects, redis, args, loc, hist>>
\* await getCachedBucketSize(...), then the freshness test
GetCached(w) ==
  LET key == bucketSizeKey(args[w].bucketName, args[w].accessKeyId) IN
  /\ pc[w] = "getCached"
  /\ IF Exists(key) /\ isBucketSizeResultFresh(redis[key].value, now)
     THEN /\ pc' = [pc EXCEPT ![w] = "done"]
          /\ status' = [status EXCEPT ![w] = "already-fresh"]
     ELSE /\ pc' = [pc EXCEPT ![w] = "setLock"]
          /\ status' = status
  /\ UNCHANGED <<flag, sched, config, tree, rq, now, smallTicks, objects, redis, args, loc, hist>>

\* await redis.set(lockKey, workerId, "EX", lockTtlSeconds, "NX"), then the
\* start of calculateBucketSize up to its first request
SetLock(w) ==
  LET lockKey == bucketSizeLockKey(args[w].bucketName, args[w].accessKeyId)
      set == SetNX(redis, lockKey, w, now + lockTtlSeconds * 1000)
      acquired == set.reply
      l == [InitLoc EXCEPT !.workerId = w, !.startedAt = now]
  IN
  /\ pc[w] = "setLock"
  /\ redis' = set.store
  /\ IF ~acquired
     THEN /\ pc' = [pc EXCEPT ![w] = "done"]
          /\ status' = [status EXCEPT ![w] = "already-locked"]
          /\ UNCHANGED <<flag, sched, loc, hist>>
     ELSE /\ status' = status
          /\ IF LoopTopBreaks(l, now)
             THEN LET l1 == [l EXCEPT !.isApproximate = TRUE] IN
                  /\ loc' = [loc EXCEPT ![w] =
                       [l1 EXCEPT !.pending = SuccessResult(args[w].bucketName, l1, now)]]
                  /\ pc' = [pc EXCEPT ![w] = "store"]
                  /\ hist' = [hist EXCEPT ![w].acquired = TRUE]
             ELSE /\ loc' = [loc EXCEPT ![w] = l]
                  /\ pc' = [pc EXCEPT ![w] = "list"]
                  /\ hist' = [hist EXCEPT ![w].acquired = TRUE,
                                           ![w].calls = Min(@ + 1, MaxCallsCounted)]
  /\ UNCHANGED <<flag, sched, config, tree, rq, now, smallTicks, objects, args>>

\* await client.send(ListObjectsV2Command) resolves: the rest of the iteration,
\* then either the next request or the return of calculateBucketSize
ListPage(w) ==
  LET b  == args[w].bucketName
      l1 == Accumulate(loc[w], PageContents(b, loc[w].continuationToken))
      l2 == [l1 EXCEPT !.continuationToken = NextContinuationToken(b, loc[w].continuationToken)]
  IN
  /\ pc[w] = "list"
  /\ IF l2.continuationToken # 0 /\ ~l2.isApproximate
     THEN Iterate(w, l2)
     ELSE /\ loc' = [loc EXCEPT ![w] = [l2 EXCEPT !.pending = SuccessResult(b, l2, now)]]
          /\ pc' = [pc EXCEPT ![w] = "store"]
          /\ hist' = hist
  /\ UNCHANGED <<flag, sched, config, tree, rq, now, smallTicks, objects, redis, args, status>>

\* the same await against an upstream that answers as it likes: a page of
\* contents and, if more, a continuation token (the two tokens of the model
\* alternate)
ListPageOf(w, contents, more) ==
  LET b  == args[w].bucketName
      l1 == Accumulate(loc[w], contents)
      l2 == [l1 EXCEPT !.continuationToken =
               IF ~more THEN 0 ELSE IF loc[w].continuationToken = 1 THEN 2 ELSE 1]
  IN
  /\ pc[w] = "list"
  /\ IF l2.continuationToken # 0 /\ ~l2.isApproximate
     THEN Iterate(w, l2)
     ELSE /\ loc' = [loc EXCEPT ![w] = [l2 EXCEPT !.pending = SuccessResult(b, l2, now)]]
          /\ pc' = [pc EXCEPT ![w] = "store"]
          /\ hist' = hist
  /\ UNCHANGED <<flag, sched, config, tree, rq, now, smallTicks, objects, redis, args, status>>

\* await client.send(...) rejects: the catch block up to its store
ListFail(w, error) ==
  /\ pc[w] = "list"
  /\ loc' = [loc EXCEPT ![w].error = error,
                        ![w].pending =
               IF isPermissionDeniedError(error)
               THEN AccessDeniedResult(args[w].bucketName, now)
               ELSE FailedResult(args[w].bucketName, error, now)]
  /\ pc' = [pc EXCEPT ![w] = "store"]
  /\ UNCHANGED <<flag, sched, config, tree, rq, now, smallTicks, objects, redis, args, status, hist>>

\* await storeBucketSizeResult(...), then the finally block up to its read
StoreResult(w) ==
  LET key == bucketSizeKey(args[w].bucketName, args[w].accessKeyId)
      result == loc[w].pending
  IN
  /\ pc[w] = "store"
  /\ redis' = storeBucketSizeResult(redis, args[w].bucketName, args[w].accessKeyId, result, now)
  /\ pc' = [pc EXCEPT ![w] = "getLock"]
  /\ UNCHANGED <<flag, sched, config, tree, rq, now, smallTicks, objects, args, loc, status, hist>>

\* how the call completes after the finally block: the exception the catch
\* block let through is rethrown, otherwise the value of the return statement
Completion(l) == IF l.thrown THEN "rejected" ELSE "calculated"

\* await redis.get(lockKey), then the ownership test
GetLock(w) ==
  LET lockKey == bucketSizeLockKey(args[w].bucketName, args[w].accessKeyId) IN
  /\ pc[w] = "getLock"
  /\ IF IsLockOwner(LockOwnerAt(lockKey), loc[w].workerId)
     THEN /\ pc' = [pc EXCEPT ![w] = "delLock"]
          /\ status' = status
          /\ loc' = loc
     ELSE /\ pc' = [pc EXCEPT ![w] = "done"]
          /\ status' = [status EXCEPT ![w] = Completion(loc[w])]
          /\ loc' = [loc EXCEPT ![w] = InitLoc]
  /\ UNCHANGED <<flag, sched, config, tree, rq, now, smallTicks, objects, redis, args, hist>>

\* await redis.del(lockKey), then the return
DelLock(w) ==
  LET lockKey == bucketSizeLockKey(args[w].bucketName, args[w].accessKeyId) IN
  /\ pc[w] = "delLock"
  /\ redis' = [redis EXCEPT ![lockKey] = NoEntry]
  /\ pc' = [pc EXCEPT ![w] = "done"]
  /\ status' = [status EXCEPT ![w] = Completion(loc[w])]
  /\ loc' = [loc EXCEPT ![w] = InitLoc]
  /\ UNCHANGED <<flag, sched, config, tree, rq, now, smallTicks, objects, args, hist>>

(***************************************************************************)
(* The shared store fails: the awaited command rejects and changes nothing.*)
(***************************************************************************)
\* errors the store client can throw
StoreErrors ==
  { [isObject |-> TRUE, isError |-> TRUE, Code |-> "", code |-> "", name |-> "MaxRetriesPerRequestError",
     status |-> 0, message |-> "Reached the max retries per request limit"] }

\* await getCachedBucketSize(...) rejects: outside any try block
GetCachedFail(w) ==
  /\ pc[w] = "getCached"
  /\ pc' = [pc EXCEPT ![w] = "done"]
  /\ status' = [status EXCEPT ![w] = "rejected"]
  /\ UNCHANGED <<flag, sched, config, tree, rq, now, smallTicks, objects, redis, args, loc, hist>>

\* await redis.set(lockKey, ..., "NX") rejects: outside any try block
SetLockFail(w) ==
  /\ pc[w] = "setLock"
  /\ pc' = [pc EXCEPT ![w] = "done"]
  /\ status' = [status EXCEPT ![w] = "rejected"]
  /\ UNCHANGED <<flag, sched, config, tree, rq, now, smallTicks, objects, redis, args, loc, hist>>

\* await storeBucketSizeResult(...) rejects: in the try block the catch block
\* takes the error and stores again; in the catch block the error goes on to
\* the finally block
StoreResultFail(w, error) ==
  /\ pc[w] = "store"
  /\ IF loc[w].error = NoFailure
     THEN /\ loc' = [loc EXCEPT ![w].error = error,
                                ![w].pending =
                       IF isPermissionDeniedError(error)
                       THEN AccessDeniedResult(args[w].bucketName, now)
                       ELSE FailedResult(args[w].bucketName, error, now)]
          /\ pc' = pc
     ELSE /\ loc' = [loc EXCEPT ![w].thrown = TRUE]
          /\ pc' = [pc EXCEPT ![w] = "getLock"]
  /\ UNCHANGED <<flag, sched, config, tree, rq, now, smallTicks, objects, redis, args, status, hist>>

\* await redis.get(lockKey) rejects in the finally block
GetLockFail(w) ==
  /\ pc[w] = "getLock"
  /\ pc' = [pc EXCEPT ![w] = "done"]
  /\ status' = [status EXCEPT ![w] = "rejected"]
  /\ loc' = [loc EXCEPT ![w] = InitLoc]
  /\ UNCHANGED <<flag, sched, config, tree, rq, now, smallTicks, objects, redis, args, hist>>

\* await redis.del(lockKey) rejects in the finally block
DelLockFail(w) ==
  /\ pc[w] = "delLock"
  /\ pc' = [pc EXCEPT ![w] = "done"]
  /\ status' = [status EXCEPT ![w] = "rejected"]
  /\ loc' = [loc EXCEPT ![w] = InitLoc]
  /\ UNCHANGED <<flag, sched, config, tree, rq, now, smallTicks, objects, redis, args, hist>>

(***************************************************************************)
(* session.ts: the listing cache.  Every function is given the store and   *)
(* the settings and yields what it returns and the store it leaves.        *)
(***************************************************************************)
\* JSON.stringify(response), and a stored value JSON.parse throws on
JsonStringify(response) == [json |-> TRUE, text |-> response]
CorruptValue == [json |-> FALSE]
JsonParses(value) == value.json
JsonParse(value) == value.text

\* redis SCAN ... MATCH pattern, for a pattern whose only special character
\* is the "*" at its end
GlobMatch(key, pattern) == StartsWith(key, SubSeq(pattern, 1, Len(pattern) - 1))
scanKeys(store, pattern) == { key \in Keys : store[key].exists /\ GlobMatch(key, pattern) }

\* redis UNLINK of the keys: the number of entries removed and the store
deleteKeys(store, keys) ==
  [deleted |-> Cardinality({ key \in keys : store[key].exists }),
   store |-> [key \in Keys |-> IF key \in keys THEN NoEntry ELSE store[key]]]

readPrefixFromListCacheKey(cacheKey) ==
  LET prefixWithSeparator == listCacheKeyPrefix \o ":" IN
  IF ~StartsWith(cacheKey, prefixWithSeparator) THEN Undefined
  ELSE LET segments ==
             Split(SubSeq(cacheKey, Len(prefixWithSeparator) + 1, Len(cacheKey)), ":")
       IN IF Len(segments) # 5 THEN Undefined ELSE decodeSegment(segments[3])

\* the prefix read from each key of the store, computed once
CachedPrefixOf == [cacheKey \in Keys |-> readPrefixFromListCacheKey(cacheKey)]

\* (mutant) the entry is kept alive by the read
getCachedListObjectsResponseTouching(store, cfg, q, t) ==
  IF ~cfg.S3_LIST_CACHE_ENABLED THEN [result |-> Absent, store |-> store]
  ELSE LET key == KeyOf(q) IN
       IF ~store[key].exists THEN [result |-> Absent, store |-> store]
       ELSE [result |-> JsonParse(store[key].value),
             store |-> [store EXCEPT ![key].expiresAt = t + S3_LIST_CACHE_TTL_SECONDS * 1000]]
getCachedListObjectsResponse(store, cfg, q, t) ==
  IF ~cfg.S3_LIST_CACHE_ENABLED THEN [result |-> Absent, store |-> store]
  ELSE LET key == KeyOf(q) IN
       IF ~store[key].exists THEN [result |-> Absent, store |-> store]
       ELSE IF JsonParses(store[key].value)
       THEN [result |-> JsonParse(store[key].value), store |-> store]
       ELSE [result |-> Absent, store |-> [store EXCEPT ![key] = NoEntry]]

setCachedListObjectsResponse(store, cfg, q, response, t) ==
  IF ~cfg.S3_LIST_CACHE_ENABLED THEN store
  ELSE [store EXCEPT ![KeyOf(q)] =
          Entry(JsonStringify(response), t + S3_LIST_CACHE_TTL_SECONDS * 1000)]

\* (mutant) the scan pattern stops at the session
invalidateCachedListObjectsForSession(store, cfg, sessionToken, bucket) ==
  IF ~cfg.S3_LIST_CACHE_ENABLED THEN [deleted |-> 0, store |-> store]
  ELSE deleteKeys(store,
         scanKeys(store, listCacheKeyPrefix \o ":" \o hashSessionToken(sessionToken) \o ":*"))
invalidateCachedListObjectsForBucket(store, cfg, sessionToken, bucket) ==
  IF ~cfg.S3_LIST_CACHE_ENABLED THEN [deleted |-> 0, store |-> store]
  ELSE deleteKeys(store, scanKeys(store, listCacheBucketNamespace(sessionToken, bucket) \o ":*"))

Range(seq) == { seq[i] : i \in 1..Len(seq) }

\* (mutant) the children are matched by equality
invalidateCachedListObjectsByEqualPrefix(store, cfg, sessionToken, bucket, exactPrefixes, prefixesWithChildren) ==
  IF ~cfg.S3_LIST_CACHE_ENABLED THEN [deleted |-> 0, store |-> store]
  ELSE LET namespace == listCacheBucketNamespace(sessionToken, bucket)
           found == UNION { scanKeys(store, namespace \o ":" \o encodeSegment(prefix) \o ":*") :
                            prefix \in Range(exactPrefixes) }
           children ==
             IF Len(prefixesWithChildren) = 0 THEN {}
             ELSE { cacheKey \in scanKeys(store, namespace \o ":*") :
                      LET cachedPrefix == CachedPrefixOf[cacheKey] IN
                      /\ cachedPrefix # Undefined
                      /\ \E p \in Range(prefixesWithChildren) : cachedPrefix = p }
       IN deleteKeys(store, found \cup children)
invalidateCachedListObjectsByPrefix(store, cfg, sessionToken, bucket, exactPrefixes, prefixesWithChildren) ==
  IF ~cfg.S3_LIST_CACHE_ENABLED THEN [deleted |-> 0, store |-> store]
  ELSE LET namespace == listCacheBucketNamespace(sessionToken, bucket)
           found == UNION { scanKeys(store, namespace \o ":" \o encodeSegment(prefix) \o ":*") :
                            prefix \in Range(exactPrefixes) }
           children ==
             IF Len(prefixesWithChildren) = 0 THEN {}
             ELSE { cacheKey \in scanKeys(store, namespace \o ":*") :
                      LET cachedPrefix == CachedPrefixOf[cacheKey] IN
                      /\ cachedPrefix # Undefined
                      /\ \E p \in Range(prefixesWithChildren) : StartsWith(cachedPrefix, p) }
       IN deleteKeys(store, found \cup children)

(***************************************************************************)
(* Direct calls of the listing cache, one call per request slot.           *)
(***************************************************************************)
\* the page a listing of q answers at revision rev of the bucket
Page(q, rev) ==
  [bucket |-> q.bucket, prefix |-> q.prefix, continuationToken |-> q.continuationToken,
   rev |-> rev]

\* request slots are taken in order
CanBegin(r) ==
  /\ rq[r].pc = "idle"
  /\ \A v \in Requests : v < r => rq[v].pc # "idle"

CallGet(r, q) ==
  LET got == getCachedListObjectsResponse(redis, config, q, now) IN
  /\ CanBegin(r)
  /\ redis' = got.store
  /\ rq' = [rq EXCEPT ![r] = [kind |-> "get", pc |-> "done", q |-> q, result |-> got.result]]
  /\ UNCHANGED <<flag, sched, now, smallTicks, objects, pc, args, loc, status, hist, config, tree>>

\* the page put by request r carries r as its revision
CallPut(r, q) ==
  /\ CanBegin(r)
  /\ redis' = setCachedListObjectsResponse(redis, config, q, Page(q, r), now)
  /\ rq' = [rq EXCEPT ![r] = [kind |-> "put", pc |-> "done", q |-> q, page |-> Page(q, r),
                               at |-> now]]
  /\ UNCHANGED <<flag, sched, now, smallTicks, objects, pc, args, loc, status, hist, config, tree>>

CallInvalidateBucket(r, sessionToken, bucket) ==
  LET inv == invalidateCachedListObjectsForBucket(redis, config, sessionToken, bucket) IN
  /\ CanBegin(r)
  /\ redis' = inv.store
  /\ rq' = [rq EXCEPT ![r] = [kind |-> "invalidateBucket", pc |-> "done",
                               sessionToken |-> sessionToken, bucket |-> bucket,
                               result |-> inv.deleted]]
  /\ UNCHANGED <<flag, sched, now, smallTicks, objects, pc, args, loc, status, hist, config, tree>>

CallInvalidateByPrefix(r, sessionToken, bucket, exactPrefixes, prefixesWithChildren) ==
  LET inv == invalidateCachedListObjectsByPrefix(redis, config, sessionToken, bucket,
                                                 exactPrefixes, prefixesWithChildren) IN
  /\ CanBegin(r)
  /\ redis' = inv.store
  /\ rq' = [rq EXCEPT ![r] = [kind |-> "invalidateByPrefix", pc |-> "done",
                               sessionToken |-> sessionToken, bucket |-> bucket,
                               exactPrefixes |-> exactPrefixes,
                               prefixesWithChildren |-> prefixesWithChildren,
                               result |-> inv.deleted]]
  /\ UNCHANGED <<flag, sched, now, smallTicks, objects, pc, args, loc, status, hist, config, tree>>

\* getCachedListObjectsResponse await by await: await redis.get(key), then
\* JSON.parse of the value
GetRead(r, q) ==
  LET key == KeyOf(q)
      call == [kind |-> "getCached", pc |-> "done", q |-> q, corrupt |-> FALSE,
               result |-> Absent]
  IN
  /\ CanBegin(r)
  /\ rq' = [rq EXCEPT ![r] =
       IF ~config.S3_LIST_CACHE_ENABLED \/ ~redis[key].exists THEN call
       ELSE IF JsonParses(redis[key].value)
       THEN [call EXCEPT !.result = JsonParse(redis[key].value)]
       ELSE [call EXCEPT !.pc = "del", !.corrupt = TRUE]]
  /\ UNCHANGED <<flag, sched, now, smallTicks, objects, redis, pc, args, loc, status, hist,
                 config, tree>>

\* (mutant) the corrupt entry is left in the store
GetDeleteSkipped(r) ==
  /\ rq[r].kind = "getCached" /\ rq[r].pc = "del"
  /\ rq' = [rq EXCEPT ![r].pc = "done"]
  /\ UNCHANGED <<flag, sched, now, smallTicks, objects, redis, pc, args, loc, status, hist,
                 config, tree>>
\* the catch block: await redis.del(key), return null
GetDelete(r) ==
  /\ rq[r].kind = "getCached" /\ rq[r].pc = "del"
  /\ redis' = [redis EXCEPT ![KeyOf(rq[r].q)] = NoEntry]
  /\ rq' = [rq EXCEPT ![r].pc = "done"]
  /\ UNCHANGED <<flag, sched, now, smallTicks, objects, pc, args, loc, status, hist, config, tree>>

(***************************************************************************)
(* session.ts: the sessions; auth.ts: requireSession, which looks the      *)
(* session of the request's cookie up, one action per await.               *)
(***************************************************************************)
Credentials ==
  { [accessKeyId |-> "AK1", secretAccessKey |-> secret] : secret \in {"SK1", "SK2"} }
\* the session of the store at the start and its token
InitialToken == "s1"
InitialCredentials == [accessKeyId |-> "AK1", secretAccessKey |-> "SK1"]
\* crypto.randomBytes(48): a token no session was created with and no
\* request has presented
FreshTokens ==
  { token \in Tokens \ {InitialToken} :
      \A r \in Requests :
        /\ ~(rq[r].kind = "createSession" /\ rq[r].result = token)
        /\ ~(rq[r].kind \in {"requireSession", "deleteSession"} /\ rq[r].token = token) }

AppError(message, statusCode) == [isAppError |-> TRUE, message |-> message, statusCode |-> statusCode]
\* the status the error handler of the server replies with
errorHandlerStatus(error) ==
  IF "isAppError" \in DOMAIN error THEN error.statusCode
  ELSE IF "statusCode" \in DOMAIN error THEN error.statusCode ELSE 500

\* (mutant) the token is drawn from all tokens
CreateSessionReusingToken(r, credentials) ==
  \E token \in Tokens :
    /\ CanBegin(r)
    /\ redis' = [redis EXCEPT ![sessionKey(token)] =
         Entry(JsonStringify(credentials), now + SESSION_TTL_SECONDS * 1000)]
    /\ rq' = [rq EXCEPT ![r] = [kind |-> "createSession", pc |-> "done",
                                 credentials |-> credentials, result |-> token]]
    /\ UNCHANGED <<flag, sched, now, smallTicks, objects, pc, args, loc, status, hist, config, tree>>
CreateSession(r, credentials) ==
  \E token \in FreshTokens :
    /\ CanBegin(r)
    /\ redis' = [redis EXCEPT ![sessionKey(token)] =
         Entry(JsonStringify(credentials), now + SESSION_TTL_SECONDS * 1000)]
    /\ rq' = [rq EXCEPT ![r] = [kind |-> "createSession", pc |-> "done",
                                 credentials |-> credentials, result |-> token]]
    /\ UNCHANGED <<flag, sched, now, smallTicks, objects, pc, args, loc, status, hist, config, tree>>

\* the SET of createSession rejects
CreateSessionFail(r, credentials) ==
  /\ CanBegin(r)
  /\ rq' = [rq EXCEPT ![r] = [kind |-> "createSession", pc |-> "rejected",
                               credentials |-> credentials, result |-> Undefined]]
  /\ UNCHANGED <<flag, sched, now, smallTicks, objects, redis, pc, args, loc, status, hist, config, tree>>

\* requireSession up to the first await of getSessionCredentials
RequireSessionBegin(r, token) ==
  /\ CanBegin(r)
  /\ rq' = [rq EXCEPT ![r] =
       IF token = Undefined
       THEN [kind |-> "requireSession", pc |-> "done", token |-> token, data |-> Absent,
             result |-> Absent, authenticated |-> FALSE, storeError |-> FALSE,
             renewed |-> FALSE,
             statusCode |-> errorHandlerStatus(AppError("Not authenticated", 401))]
       ELSE [kind |-> "requireSession", pc |-> "get", token |-> token, data |-> Absent,
             result |-> Absent, authenticated |-> FALSE, storeError |-> FALSE,
             renewed |-> FALSE, statusCode |-> 0]]
  /\ UNCHANGED <<flag, sched, now, smallTicks, objects, redis, pc, args, loc, status, hist, config, tree>>

\* await redis.get(sessionKey(token)) resolves
GetSession(r) ==
  LET key == sessionKey(rq[r].token) IN
  /\ rq[r].kind = "requireSession" /\ rq[r].pc = "get"
  /\ rq' = [rq EXCEPT ![r] =
       IF redis[key].exists
       THEN [@ EXCEPT !.pc = "expire", !.data = redis[key].value]
       ELSE [@ EXCEPT !.pc = "done",
                      !.statusCode = errorHandlerStatus(
                         AppError("Session expired. Please log in again.", 401))]]
  /\ UNCHANGED <<flag, sched, now, smallTicks, objects, redis, pc, args, loc, status, hist, config, tree>>

\* await redis.get(sessionKey(token)) rejects: requireSession rejects with
\* the error of the store
GetSessionFail(r, error) ==
  /\ rq[r].kind = "requireSession" /\ rq[r].pc = "get"
  /\ rq' = [rq EXCEPT ![r] =
       [@ EXCEPT !.pc = "done", !.storeError = TRUE, !.statusCode = errorHandlerStatus(error)]]
  /\ UNCHANGED <<flag, sched, now, smallTicks, objects, redis, pc, args, loc, status, hist, config, tree>>

\* (mutant) the renewal writes the record back with a new lifetime
ExpireSessionRewriting(r) ==
  LET key == sessionKey(rq[r].token) IN
  /\ rq[r].kind = "requireSession" /\ rq[r].pc = "expire"
  /\ redis' = [redis EXCEPT ![key] = Entry(rq[r].data, now + SESSION_TTL_SECONDS * 1000)]
  /\ rq' = [rq EXCEPT ![r] =
       [@ EXCEPT !.pc = "done", !.result = JsonParse(rq[r].data), !.authenticated = TRUE,
                 !.renewed = redis[key].exists]]
  /\ UNCHANGED <<flag, sched, now, smallTicks, objects, pc, args, loc, status, hist, config, tree>>
\* await redis.expire(sessionKey(token), SESSION_TTL_SECONDS) resolves, the
\* credentials are returned and requireSession sets them on the request;
\* renewed is the reply of EXPIRE, which the code does not look at
ExpireSession(r) ==
  LET key == sessionKey(rq[r].token) IN
  /\ rq[r].kind = "requireSession" /\ rq[r].pc = "expire"
  /\ redis' = IF redis[key].exists
              THEN [redis EXCEPT ![key].expiresAt = now + SESSION_TTL_SECONDS * 1000]
              ELSE redis
  /\ rq' = [rq EXCEPT ![r] =
       [@ EXCEPT !.pc = "done", !.result = JsonParse(rq[r].data), !.authenticated = TRUE,
                 !.renewed = redis[key].exists]]
  /\ UNCHANGED <<flag, sched, now, smallTicks, objects, pc, args, loc, status, hist, config, tree>>

\* await redis.expire(...) rejects
ExpireSessionFail(r, error) ==
  /\ rq[r].kind = "requireSession" /\ rq[r].pc = "expire"
  /\ rq' = [rq EXCEPT ![r] =
       [@ EXCEPT !.pc = "done", !.storeError = TRUE, !.statusCode = errorHandlerStatus(error)]]
  /\ UNCHANGED <<flag, sched, now, smallTicks, objects, redis, pc, args, loc, status, hist, config, tree>>

\* (mutant) deleting a session that is absent is an error
DeleteSessionStrict(r, token) ==
  /\ CanBegin(r)
  /\ redis' = [redis EXCEPT ![sessionKey(token)] = NoEntry]
  /\ rq' = [rq EXCEPT ![r] = [kind |-> "deleteSession",
                               pc |-> IF redis[sessionKey(token)].exists THEN "done" ELSE "rejected",
                               token |-> token, storeError |-> FALSE]]
  /\ UNCHANGED <<flag, sched, now, smallTicks, objects, pc, args, loc, status, hist, config, tree>>
DeleteSession(r, token) ==
  /\ CanBegin(r)
  /\ redis' = [redis EXCEPT ![sessionKey(token)] = NoEntry]
  /\ rq' = [rq EXCEPT ![r] = [kind |-> "deleteSession", pc |-> "done", token |-> token,
                               storeError |-> FALSE]]
  /\ UNCHANGED <<flag, sched, now, smallTicks, objects, pc, args, loc, status, hist, config, tree>>

\* the DEL of deleteSession rejects
DeleteSessionFail(r, token) ==
  /\ CanBegin(r)
  /\ rq' = [rq EXCEPT ![r] = [kind |-> "deleteSession", pc |-> "rejected", token |-> token,
                               storeError |-> TRUE]]
  /\ UNCHANGED <<flag, sched, now, smallTicks, objects, redis, pc, args, loc, status, hist, config, tree>>

(***************************************************************************)
(* Direct calls of the helpers of bucket-size.ts.                          *)
(***************************************************************************)
CallGetBucketSizeCacheTtlSeconds(r, objectCount) ==
  /\ CanBegin(r)
  /\ rq' = [rq EXCEPT ![r] = [kind |-> "getBucketSizeCacheTtlSeconds", pc |-> "done",
                               objectCount |-> objectCount,
                               result |-> getBucketSizeCacheTtlSeconds(objectCount)]]
  /\ UNCHANGED <<flag, sched, now, smallTicks, objects, redis, pc, args, loc, status, hist, config, tree>>

CallIsBucketSizeResultFresh(r, result, t) ==
  /\ CanBegin(r)
  /\ rq' = [rq EXCEPT ![r] = [kind |-> "isBucketSizeResultFresh", pc |-> "done",
                               value |-> result, at |-> t,
                               result |-> isBucketSizeResultFresh(result, t)]]
  /\ UNCHANGED <<flag, sched, now, smallTicks, objects, redis, pc, args, loc, status, hist, config, tree>>

\* getCachedBucketSize: the value under the key, parsed, or null
getCachedBucketSize(store, bucketName, accessKeyId) ==
  RedisGet(store, bucketSizeKey(bucketName, accessKeyId))

CallGetCachedBucketSize(r, bucketName, accessKeyId) ==
  /\ CanBegin(r)
  /\ rq' = [rq EXCEPT ![r] = [kind |-> "getCachedBucketSize", pc |-> "done",
                               bucketName |-> bucketName, accessKeyId |-> accessKeyId,
                               result |-> getCachedBucketSize(redis, bucketName, accessKeyId)]]
  /\ UNCHANGED <<flag, sched, now, smallTicks, objects, redis, pc, args, loc, status, hist, config, tree>>

CallStoreBucketSizeResult(r, bucketName, accessKeyId, result) ==
  /\ CanBegin(r)
  /\ redis' = storeBucketSizeResult(redis, bucketName, accessKeyId, result, now)
  /\ rq' = [rq EXCEPT ![r] = [kind |-> "storeBucketSizeResult", pc |-> "done",
                               bucketName |-> bucketName, accessKeyId |-> accessKeyId,
                               value |-> result, at |-> now]]
  /\ UNCHANGED <<flag, sched, now, smallTicks, objects, pc, args, loc, status, hist, config, tree>>

(***************************************************************************)
(* routes.ts: the prefixes a mutation invalidates.                         *)
(***************************************************************************)
normalizePrefix(prefix) ==
  IF prefix = "" THEN ""
  ELSE IF EndsWith(prefix, "/") THEN prefix ELSE prefix \o "/"

getParentPrefixFromObjectKey(key) ==
  LET lastSlash == LastIndexOf(key, "/") IN
  IF lastSlash = 0 THEN "" ELSE SubSeq(key, 1, lastSlash)

\* the for-loop of getAncestorPrefixes
RECURSIVE JoinedParts(_, _)
JoinedParts(current, parts) ==
  IF parts = <<>> THEN <<>>
  ELSE LET next == current \o Head(parts) \o "/" IN <<next>> \o JoinedParts(next, Tail(parts))

getAncestorPrefixes(prefix) ==
  LET normalized == normalizePrefix(prefix) IN
  IF normalized = "" THEN <<"">>
  ELSE <<"">> \o JoinedParts("", FilterBoolean(Split(normalized, "/")))

\* invalidateListCacheForMutation when no store command fails: the store it
\* leaves
invalidateListCacheForMutation(store, cfg, sessionToken, bucket, options) ==
  IF ~cfg.S3_LIST_CACHE_ENABLED \/ sessionToken = Undefined THEN store
  ELSE IF cfg.S3_LIST_CACHE_INVALIDATION_MODE = "bucket"
  THEN invalidateCachedListObjectsForBucket(store, cfg, sessionToken, bucket).store
  ELSE IF options.type = "object"
  THEN LET parentPrefix == getParentPrefixFromObjectKey(options.key) IN
       invalidateCachedListObjectsByPrefix(store, cfg, sessionToken, bucket,
         getAncestorPrefixes(parentPrefix), <<>>).store
  ELSE LET normalizedPrefix == normalizePrefix(options.prefix) IN
       invalidateCachedListObjectsByPrefix(store, cfg, sessionToken, bucket,
         getAncestorPrefixes(normalizedPrefix),
         IF normalizedPrefix # "" THEN <<normalizedPrefix>> ELSE <<>>).store

(***************************************************************************)
(* routes.ts: GET /api/s3/objects, one action per await.                   *)
(***************************************************************************)
\* the mutations whose success response has been sent
Responded == { u \in Requests : rq[u].kind = "mutation" /\ rq[u].pc \in {"invalidate", "done"} }

\* (mutant) the handler looks the page up whatever the configuration says
ListBeginWithoutConfig(r, q) ==
  /\ CanBegin(r)
  /\ rq' = [rq EXCEPT ![r] =
       IF q.sessionToken = Undefined
       THEN [kind |-> "list", pc |-> "fetch", q |-> q, header |-> "BYPASS", response |-> Absent,
             reads |-> 0, writes |-> 0, lookupError |-> FALSE, storeError |-> FALSE]
       ELSE [kind |-> "list", pc |-> "lookup", q |-> q, header |-> "none", response |-> Absent,
             reads |-> 0, writes |-> 0, lookupError |-> FALSE, storeError |-> FALSE]]
  /\ UNCHANGED <<flag, sched, now, smallTicks, objects, redis, pc, args, loc, status, hist, config, tree>>
\* the handler up to its first await
ListBegin(r, q) ==
  /\ CanBegin(r)
  /\ rq' = [rq EXCEPT ![r] =
       IF ~config.S3_LIST_CACHE_ENABLED \/ q.sessionToken = Undefined
       THEN [kind |-> "list", pc |-> "fetch", q |-> q, header |-> "BYPASS", response |-> Absent,
             reads |-> 0, writes |-> 0, lookupError |-> FALSE, storeError |-> FALSE]
       ELSE [kind |-> "list", pc |-> "lookup", q |-> q, header |-> "none", response |-> Absent,
             reads |-> 0, writes |-> 0, lookupError |-> FALSE, storeError |-> FALSE]]
  /\ UNCHANGED <<flag, sched, now, smallTicks, objects, redis, pc, args, loc, status, hist, config, tree>>

\* (mutant) a page found in the cache is fetched again from the upstream
ListLookupRefetching(r) ==
  LET got == getCachedListObjectsResponse(redis, config, rq[r].q, now) IN
  /\ rq[r].kind = "list" /\ rq[r].pc = "lookup"
  /\ redis' = got.store
  /\ rq' = [rq EXCEPT ![r] =
       IF got.result # Absent
       THEN [@ EXCEPT !.pc = "fetch", !.header = "HIT", !.response = got.result,
                      !.reads = @ + 1]
       ELSE [@ EXCEPT !.pc = "fetch", !.header = "MISS", !.reads = @ + 1]]
  /\ UNCHANGED <<flag, sched, now, smallTicks, objects, pc, args, loc, status, hist, config, tree>>
\* await getCachedListObjectsResponse(...) resolves
ListLookup(r) ==
  LET got == getCachedListObjectsResponse(redis, config, rq[r].q, now) IN
  /\ rq[r].kind = "list" /\ rq[r].pc = "lookup"
  /\ redis' = got.store
  /\ rq' = [rq EXCEPT ![r] =
       IF got.result # Absent
       THEN [@ EXCEPT !.pc = "done", !.header = "HIT", !.response = got.result,
                      !.reads = @ + 1]
       ELSE [@ EXCEPT !.pc = "fetch", !.header = "MISS", !.reads = @ + 1]]
  /\ UNCHANGED <<flag, sched, now, smallTicks, objects, pc, args, loc, status, hist, config, tree>>

\* (mutant) a failed lookup is taken for a miss
ListLookupFailAsMiss(r) ==
  /\ rq[r].kind = "list" /\ rq[r].pc = "lookup"
  /\ rq' = [rq EXCEPT ![r] =
       [@ EXCEPT !.pc = "fetch", !.header = "MISS", !.lookupError = TRUE, !.reads = @ + 1]]
  /\ UNCHANGED <<flag, sched, now, smallTicks, objects, redis, pc, args, loc, status, hist, config, tree>>
\* await getCachedListObjectsResponse(...) rejects
ListLookupFail(r) ==
  /\ rq[r].kind = "list" /\ rq[r].pc = "lookup"
  /\ rq' = [rq EXCEPT ![r] =
       [@ EXCEPT !.pc = "fetch", !.header = "BYPASS", !.lookupError = TRUE, !.reads = @ + 1]]
  /\ UNCHANGED <<flag, sched, now, smallTicks, objects, redis, pc, args, loc, status, hist, config, tree>>

\* await listObjects(...) resolves: the response is returned; after a miss
\* the write of the cache is started and not awaited
ListFetch(r) ==
  /\ rq[r].kind = "list" /\ rq[r].pc = "fetch"
  /\ rq' = [rq EXCEPT ![r] =
       [@ EXCEPT !.response = Page(rq[r].q, tree[rq[r].q.bucket]),
                 !.pc = IF rq[r].header = "MISS" THEN "store" ELSE "done"]]
  /\ UNCHANGED <<flag, sched, now, smallTicks, objects, redis, pc, args, loc, status, hist, config, tree>>

\* await listObjects(...) rejects: the request fails
ListFetchFail(r) ==
  /\ rq[r].kind = "list" /\ rq[r].pc = "fetch"
  /\ rq' = [rq EXCEPT ![r].pc = "failed"]
  /\ UNCHANGED <<flag, sched, now, smallTicks, objects, redis, pc, args, loc, status, hist, config, tree>>

\* the write started by void setCachedListObjectsResponse(...) reaches the store
ListStore(r) ==
  /\ rq[r].kind = "list" /\ rq[r].pc = "store"
  /\ redis' = setCachedListObjectsResponse(redis, config, rq[r].q, rq[r].response, now)
  /\ rq' = [rq EXCEPT ![r] = [@ EXCEPT !.pc = "done", !.writes = @ + 1]]
  /\ UNCHANGED <<flag, sched, now, smallTicks, objects, pc, args, loc, status, hist, config, tree>>

\* (mutant) the rejected write fails the request
ListStoreFailSurfacing(r) ==
  /\ rq[r].kind = "list" /\ rq[r].pc = "store"
  /\ rq' = [rq EXCEPT ![r] = [@ EXCEPT !.pc = "failed", !.response = Absent,
                                        !.writes = @ + 1, !.storeError = TRUE]]
  /\ UNCHANGED <<flag, sched, now, smallTicks, objects, redis, pc, args, loc, status, hist, config, tree>>
\* that write rejects: the .catch counts it
ListStoreFail(r) ==
  /\ rq[r].kind = "list" /\ rq[r].pc = "store"
  /\ rq' = [rq EXCEPT ![r] = [@ EXCEPT !.pc = "done", !.writes = @ + 1, !.storeError = TRUE]]
  /\ UNCHANGED <<flag, sched, now, smallTicks, objects, redis, pc, args, loc, status, hist, config, tree>>

(***************************************************************************)
(* routes.ts: POST /api/s3/upload, POST /api/s3/folder, DELETE             *)
(* /api/s3/object (options.type = "object") and DELETE /api/s3/prefix      *)
(* (options.type = "prefix").                                              *)
(***************************************************************************)
MutateBegin(r, sessionToken, bucket, options) ==
  /\ CanBegin(r)
  /\ rq' = [rq EXCEPT ![r] =
       [kind |-> "mutation", pc |-> "upstream", sessionToken |-> sessionToken,
        bucket |-> bucket, options |-> options, rev |-> 0,
        response |-> Absent, invalidationError |-> FALSE]]
  /\ UNCHANGED <<flag, sched, now, smallTicks, objects, redis, pc, args, loc, status, hist, config, tree>>

\* the await of the upstream call resolves: the invalidation is started, not
\* awaited, and the success response is returned
MutateUpstream(r) ==
  /\ rq[r].kind = "mutation" /\ rq[r].pc = "upstream"
  /\ tree' = [tree EXCEPT ![rq[r].bucket] = @ + 1]
  /\ rq' = [rq EXCEPT ![r] = [@ EXCEPT !.pc = "invalidate", !.rev = tree[rq[r].bucket] + 1,
                                        !.response = [ok |-> TRUE]]]
  /\ UNCHANGED <<flag, sched, now, smallTicks, objects, redis, pc, args, loc, status, hist, config>>

\* the await of the upstream call rejects: the request fails
MutateUpstreamFail(r) ==
  /\ rq[r].kind = "mutation" /\ rq[r].pc = "upstream"
  /\ rq' = [rq EXCEPT ![r].pc = "failed"]
  /\ UNCHANGED <<flag, sched, now, smallTicks, objects, redis, pc, args, loc, status, hist, config, tree>>

\* the invalidation started by void invalidateListCacheForMutation(...)
\* reaches the store
MutateInvalidate(r) ==
  /\ rq[r].kind = "mutation" /\ rq[r].pc = "invalidate"
  /\ redis' = invalidateListCacheForMutation(redis, config, rq[r].sessionToken,
                                              rq[r].bucket, rq[r].options)
  /\ rq' = [rq EXCEPT ![r].pc = "done"]
  /\ UNCHANGED <<flag, sched, now, smallTicks, objects, pc, args, loc, status, hist, config, tree>>

\* a store command of the invalidation rejects: the catch block counts it
MutateInvalidateFail(r) ==
  /\ rq[r].kind = "mutation" /\ rq[r].pc = "invalidate"
  /\ config.S3_LIST_CACHE_ENABLED /\ rq[r].sessionToken # Undefined
  /\ rq' = [rq EXCEPT ![r] = [@ EXCEPT !.pc = "done", !.invalidationError = TRUE]]
  /\ UNCHANGED <<flag, sched, now, smallTicks, objects, redis, pc, args, loc, status, hist, config, tree>>

(***************************************************************************)
(* Environment: the process of an invocation dies; time passes and the     *)
(* store drops the entries whose time-to-live has elapsed.                 *)
(***************************************************************************)
InProgress(w) == pc[w] \in {"getCached", "setLock", "list", "store", "getLock", "delLock"}
Computing(w) == pc[w] \in {"list", "store", "getLock", "delLock"}

Crash(w) ==
  /\ InProgress(w)
  /\ pc' = [pc EXCEPT ![w] = "crashed"]
  /\ loc' = [loc EXCEPT ![w] = InitLoc]
  /\ UNCHANGED <<flag, sched, config, tree, rq, now, smallTicks, objects, redis, args, status, hist>>

(***************************************************************************)
(* bucket-size.ts: the feature toggle, the buckets tracked for a session,  *)
(* the scheduler and its cycle.  routes.ts: the calculate-now route.       *)
(***************************************************************************)
\* getBooleanValue(flag, false) inside try/catch
isBackgroundBucketSizeCalculationEnabled(answer) ==
  IF answer = "throws" THEN FALSE ELSE answer = "on"

\* the flag provider changes its answer
SetFlag(answer) ==
  /\ answer # flag
  /\ flag' = answer
  /\ UNCHANGED <<sched, now, smallTicks, objects, redis, pc, args, loc, status, hist, config,
                 tree, rq>>

parseSessionCredentials(value) ==
  IF value = Absent THEN Absent
  ELSE IF ~JsonParses(value) THEN Absent
  ELSE LET parsed == JsonParse(value) IN
       IF "accessKeyId" \in DOMAIN parsed /\ "secretAccessKey" \in DOMAIN parsed
       THEN [accessKeyId |-> parsed.accessKeyId, secretAccessKey |-> parsed.secretAccessKey]
       ELSE Absent

\* redis SADD key member: a set that is created has no expiry
sadd(store, key, member) ==
  IF store[key].exists
  THEN [store EXCEPT ![key].value = @ \cup {member}]
  ELSE [store EXCEPT ![key] = Entry({member}, NoExpiry)]

\* redis EXPIRE key seconds
expire(store, key, seconds, t) ==
  IF store[key].exists THEN [store EXCEPT ![key].expiresAt = t + seconds * 1000] ELSE store

\* redis SMEMBERS key
smembers(store, key) == IF store[key].exists THEN store[key].value ELSE {}

\* the orders an unordered reply of the store can arrive in
Orders(set) ==
  { seq \in [1..Cardinality(set) -> set] : \A i, j \in 1..Cardinality(set) : i # j => seq[i] # seq[j] }

\* (mutant) the route does not ask for the toggle
CalculateNowUngated(r, sessionToken, credentials, bucketName) ==
  \E w \in Invocations :
    /\ CanBegin(r)
    /\ Invoke(w, bucketName, credentials.accessKeyId, TRUE)
    /\ rq' = [rq EXCEPT ![r] =
         [kind |-> "calculate", pc |-> "done", sessionToken |-> sessionToken,
          bucketName |-> bucketName, statusCode |-> 202, body |-> "Calculation started",
          invocation |-> w, track |-> "sadd"]]
    /\ UNCHANGED <<flag, sched, now, smallTicks, objects, redis, loc, status, hist, config, tree>>
\* POST /api/s3/buckets/:bucketName/size/calculate of a session that
\* requireSession has let through, up to its reply
CalculateNow(r, sessionToken, credentials, bucketName) ==
  LET request == [kind |-> "calculate", pc |-> "done", sessionToken |-> sessionToken,
                  bucketName |-> bucketName, statusCode |-> 0, body |-> "",
                  invocation |-> 0, track |-> "none"]
  IN
  /\ CanBegin(r)
  /\ IF ~isBackgroundBucketSizeCalculationEnabled(flag)
     THEN /\ rq' = [rq EXCEPT ![r] =
                [request EXCEPT !.statusCode = 404, !.body = "Feature disabled"]]
          /\ UNCHANGED <<pc, args>>
     ELSE IF Len(bucketName) < 1
     THEN /\ rq' = [rq EXCEPT ![r] =
                [request EXCEPT !.statusCode =
                                  errorHandlerStatus(AppError("Invalid bucket name", 400)),
                                !.body = "Invalid bucket name"]]
          /\ UNCHANGED <<pc, args>>
     ELSE \E w \in Invocations :
            /\ Invoke(w, bucketName, credentials.accessKeyId, TRUE)
            /\ rq' = [rq EXCEPT ![r] =
                 [request EXCEPT !.statusCode = 202, !.body = "Calculation started",
                                 !.invocation = w, !.track = "sadd"]]
  /\ UNCHANGED <<flag, sched, now, smallTicks, objects, redis, loc, status, hist, config, tree>>

\* trackBucketAccess, not awaited by the route: await redis.sadd(...)
TrackSadd(r) ==
  /\ rq[r].kind = "calculate" /\ rq[r].track = "sadd"
  /\ redis' = sadd(redis, sessionBucketKey(rq[r].sessionToken), rq[r].bucketName)
  /\ rq' = [rq EXCEPT ![r].track = "expire"]
  /\ UNCHANGED <<flag, sched, now, smallTicks, objects, pc, args, loc, status, hist, config, tree>>

\* await redis.expire(...) of trackBucketAccess
TrackExpire(r) ==
  /\ rq[r].kind = "calculate" /\ rq[r].track = "expire"
  /\ redis' = expire(redis, sessionBucketKey(rq[r].sessionToken),
                     trackedSessionBucketsTTLSeconds, now)
  /\ rq' = [rq EXCEPT ![r].track = "done"]
  /\ UNCHANGED <<flag, sched, now, smallTicks, objects, pc, args, loc, status, hist, config, tree>>

\* either await of trackBucketAccess rejects: the route logs the error
TrackFail(r) ==
  /\ rq[r].kind = "calculate" /\ rq[r].track \in {"sadd", "expire"}
  /\ rq' = [rq EXCEPT ![r].track = "failed"]
  /\ UNCHANGED <<flag, sched, now, smallTicks, objects, redis, pc, args, loc, status, hist,
                 config, tree>>

\* (mutant) the interval job is added whatever the toggle says
RegisterSchedulerUnconditionally ==
  /\ sched.registered = "pending"
  /\ sched' = [sched EXCEPT !.registered = "yes"]
  /\ UNCHANGED <<flag, now, smallTicks, objects, redis, pc, args, loc, status, hist, config,
                 tree, rq>>
\* registerBucketSizeScheduler: the interval job is added when the toggle
\* is enabled, and only then
RegisterScheduler ==
  /\ sched.registered = "pending"
  /\ sched' = [sched EXCEPT !.registered =
        IF isBackgroundBucketSizeCalculationEnabled(flag) THEN "yes" ELSE "no"]
  /\ UNCHANGED <<flag, now, smallTicks, objects, redis, pc, args, loc, status, hist, config,
                 tree, rq>>

\* the interval job fires and runBackgroundBucketSizeCycle evaluates the toggle
CycleBegin ==
  LET enabled == isBackgroundBucketSizeCalculationEnabled(flag) IN
  /\ sched.registered = "yes" /\ sched.pc = "idle"
  /\ sched.cycles < MaxCycles
  /\ sched' = [InitSched EXCEPT !.registered = "yes", !.cycles = sched.cycles + 1,
                                !.enabled = enabled,
                                !.pc = IF enabled THEN "scan" ELSE "idle"]
  /\ UNCHANGED <<flag, now, smallTicks, objects, redis, pc, args, loc, status, hist, config,
                 tree, rq>>

\* await scanKeys("atrium:session:*") resolves
CycleScan ==
  /\ sched.pc = "scan"
  /\ \E keys \in Orders(scanKeys(redis, sessionKey("") \o "*")) :
       sched' = [sched EXCEPT !.keys = keys, !.pc = "session"]
  /\ UNCHANGED <<flag, now, smallTicks, objects, redis, pc, args, loc, status, hist, config,
                 tree, rq>>

\* (mutant) the session is read the way a request reads it, with renewal
CycleSessionRenewing ==
  /\ sched.pc = "session"
  /\ sched' =
       IF sched.keys = <<>> THEN [sched EXCEPT !.pc = "idle"]
       ELSE LET key == Head(sched.keys)
                token == SubSeq(key, Len(sessionKey("")) + 1, Len(key))
                credentials == parseSessionCredentials(RedisGet(redis, sessionKey(token)))
            IN IF token = "" \/ credentials = Absent
               THEN [sched EXCEPT !.keys = Tail(@)]
               ELSE [sched EXCEPT !.token = token, !.credentials = credentials,
                                  !.pc = "buckets"]
  /\ redis' = IF sched.keys = <<>> THEN redis
              ELSE expire(redis, Head(sched.keys), SESSION_TTL_SECONDS, now)
  /\ UNCHANGED <<flag, now, smallTicks, objects, pc, args, loc, status, hist, config,
                 tree, rq>>
\* the next key of the outer loop: the token is cut from it and the session
\* is read, await redis.get(sessionKey(token)); after the last key the cycle
\* has run to its end
CycleSession ==
  /\ sched.pc = "session"
  /\ sched' =
       IF sched.keys = <<>> THEN [sched EXCEPT !.pc = "idle"]
       ELSE LET key == Head(sched.keys)
                token == SubSeq(key, Len(sessionKey("")) + 1, Len(key))
                credentials == parseSessionCredentials(RedisGet(redis, sessionKey(token)))
            IN IF token = "" \/ credentials = Absent
               THEN [sched EXCEPT !.keys = Tail(@)]
               ELSE [sched EXCEPT !.token = token, !.credentials = credentials,
                                  !.pc = "buckets"]
  /\ UNCHANGED <<flag, now, smallTicks, objects, redis, pc, args, loc, status, hist, config,
                 tree, rq>>

\* await getTrackedBucketsForSession(token) resolves
CycleBuckets ==
  /\ sched.pc = "buckets"
  /\ \E buckets \in Orders(smembers(redis, sessionBucketKey(sched.token))) :
       sched' = [sched EXCEPT !.buckets = buckets, !.pc = "call"]
  /\ UNCHANGED <<flag, now, smallTicks, objects, redis, pc, args, loc, status, hist, config,
                 tree, rq>>

\* the inner loop: calculateBucketSizeWithLock(bucket, credentials, logger)
\* is called for the next bucket; after the last one the outer loop goes on
CycleCall ==
  /\ sched.pc = "call"
  /\ IF sched.buckets = <<>>
     THEN /\ sched' = [sched EXCEPT !.keys = Tail(@), !.pc = "session"]
          /\ UNCHANGED <<pc, args>>
     ELSE \E w \in Invocations :
            /\ Invoke(w, Head(sched.buckets), sched.credentials.accessKeyId, FALSE)
            /\ sched' = [sched EXCEPT !.invocation = w, !.pc = "await",
                                      !.calls = Append(@, <<sched.token, Head(sched.buckets)>>)]
  /\ UNCHANGED <<flag, now, smallTicks, objects, redis, loc, status, hist, config, tree, rq>>

\* the awaited call settles: a rejection leaves both loops and rejects the
\* cycle, which the error handler of the task logs
CycleAwait ==
  /\ sched.pc = "await"
  /\ pc[sched.invocation] = "done"
  /\ sched' = IF status[sched.invocation] = "rejected"
              THEN [sched EXCEPT !.pc = "idle", !.failure = "call"]
              ELSE [sched EXCEPT !.buckets = Tail(@), !.pc = "call"]
  /\ UNCHANGED <<flag, now, smallTicks, objects, redis, pc, args, loc, status, hist, config,
                 tree, rq>>

\* an await of the cycle on the store rejects: the scan, the read of a
\* session or the read of its buckets
CycleStoreFail ==
  /\ \/ sched.pc \in {"scan", "buckets"}
     \/ sched.pc = "session" /\ sched.keys # <<>>
  /\ sched' = [sched EXCEPT !.pc = "idle", !.failure = sched.pc]
  /\ UNCHANGED <<flag, now, smallTicks, objects, redis, pc, args, loc, status, hist, config,
                 tree, rq>>

Expire(store, t) ==
  [key \in Keys |->
     IF store[key].exists /\ store[key].expiresAt # NoExpiry /\ store[key].expiresAt <= t
     THEN NoEntry ELSE store[key]]

Advance(d) ==
  /\ now' = now + d
  /\ redis' = Expire(redis, now + d)
  /\ hist' = [w \in Invocations |->
       LET lockKey == bucketSizeLockKey(args[w].bucketName, args[w].accessKeyId) IN
       IF /\ Computing(w)
          /\ LockOwnerAt(lockKey) = w
          /\ redis[lockKey].expiresAt <= now + d
       THEN [hist[w] EXCEPT !.lockExpired = TRUE]
       ELSE hist[w]]
  /\ UNCHANGED <<flag, sched, config, tree, rq, objects, pc, args, loc, status>>

\* half the lifetime of a session
TickSession ==
  /\ now + SessionStepSeconds * 1000 <= MaxSessionTicks * SessionStepSeconds * 1000
  /\ smallTicks' = smallTicks
  /\ Advance(SessionStepSeconds * 1000)

\* a time shorter than the time-to-live of a cached listing
TickCache ==
  /\ now + CacheStepSeconds * 1000 <= MaxCacheTicks * CacheStepSeconds * 1000
  /\ smallTicks' = smallTicks
  /\ Advance(CacheStepSeconds * 1000)

TickSmall ==
  /\ smallTicks < MaxSmallTicks
  /\ smallTicks' = smallTicks + 1
  /\ Advance(SmallStepMs)

\* a long time in which no invocation is running
TickLong ==
  /\ now + LongStepMs <= MaxLongTicks * LongStepMs + MaxSmallTicks * SmallStepMs
  /\ \A w \in Invocations : ~InProgress(w)
  /\ smallTicks' = smallTicks
  /\ Advance(LongStepMs)

\* the clock while an enumeration is waiting for the upstream and has not
\* run out of time: past its maximum duration, or past the lock's lifetime
ListingSteps == {BUCKET_SIZE_MAX_DURATION_MS + 1, SmallStepMs}
TickListing(d) ==
  /\ \E w \in Invocations :
       pc[w] = "list" /\ now - loc[w].startedAt <= BUCKET_SIZE_MAX_DURATION_MS
  /\ smallTicks' = smallTicks
  /\ Advance(d)

NextOver(I) ==
  \/ \E w \in I, b \in Buckets, k \in AccessKeys, f \in BOOLEAN : Start(w, b, k, f)
  \/ \E w \in I : GetCached(w)
  \/ \E w \in I : SetLock(w)
  \/ \E w \in I : ListPage(w)
  \/ \E w \in I, error \in UpstreamErrors : ListFail(w, error)
  \/ \E w \in I : StoreResult(w)
  \/ \E w \in I : GetLock(w)
  \/ \E w \in I : DelLock(w)
  \/ \E w \in I : GetCachedFail(w)
  \/ \E w \in I : SetLockFail(w)
  \/ \E w \in I, error \in StoreErrors : StoreResultFail(w, error)
  \/ \E w \in I : GetLockFail(w)
  \/ \E w \in I : DelLockFail(w)
  \/ \E w \in I : Crash(w)
  \/ TickSmall
  \/ TickLong

Next == NextOver(Invocations)

\* everything at once
Spec == Init /\ [][Next]_vars

(***************************************************************************)
(* The specifications the properties are checked under restrict the        *)
(* environment of Spec, never the program.                                 *)
(***************************************************************************)
\* the lock: forced invocations racing for it, holders that die, and the
\* lock's time-to-live
LockObjects == [b \in Buckets |-> <<Obj(2)>>]
LockErrors == { e \in UpstreamErrors : e.name = "SlowDown" }
InitLock == InitWith({LockObjects})
\* the two buckets of LockObjects are alike: the first invocation takes b1
LockBuckets(w) == IF w = 1 THEN {"b1"} ELSE Buckets
\* the process dies between the lock acquisition and the release
CrashHolder(w) == Computing(w) /\ Crash(w)
NextLock ==
  \/ \E w \in Invocations, k \in AccessKeys : \E b \in LockBuckets(w) : Start(w, b, k, TRUE)
  \/ \E w \in Invocations : SetLock(w)
  \/ \E w \in Invocations : ListPage(w)
  \/ \E w \in Invocations, error \in LockErrors : ListFail(w, error)
  \/ \E w \in Invocations : StoreResult(w)
  \/ \E w \in Invocations : GetLock(w)
  \/ \E w \in Invocations : DelLock(w)
  \/ \E w \in Invocations : CrashHolder(w)
  \/ TickSmall
SpecLock == InitLock /\ [][NextLock]_vars

\* one invocation over every upstream
InitEnum == InitWith([Buckets -> BucketContents])
NextEnum ==
  \/ \E b \in Buckets, k \in AccessKeys, f \in BOOLEAN : Start(1, b, k, f)
  \/ GetCached(1)
  \/ SetLock(1)
  \/ ListPage(1)
  \/ \E error \in UpstreamErrors : ListFail(1, error)
  \/ StoreResult(1)
  \/ GetLock(1)
  \/ DelLock(1)
  \/ TickSmall
SpecEnum == InitEnum /\ [][NextEnum]_vars

\* invocations one after the other, a long time apart
StartAlone(w, b, k, f) ==
  /\ \A v \in Invocations : ~InProgress(v)
  /\ Start(w, b, k, f)
NextSeq ==
  \/ \E w \in Invocations, b \in Buckets, k \in AccessKeys, f \in BOOLEAN : StartAlone(w, b, k, f)
  \/ \E w \in Invocations : GetCached(w)
  \/ \E w \in Invocations : SetLock(w)
  \/ \E w \in Invocations : ListPage(w)
  \/ \E w \in Invocations, error \in UpstreamErrors : ListFail(w, error)
  \/ \E w \in Invocations : StoreResult(w)
  \/ \E w \in Invocations : GetLock(w)
  \/ \E w \in Invocations : DelLock(w)
  \/ TickSmall
  \/ TickLong
SpecSeq == Init /\ [][NextSeq]_vars

\* the same invocations over one upstream: time passes between the return of
\* calculateBucketSize and the store, and again before the next invocation
NextStale ==
  \/ \E w \in Invocations, k \in AccessKeys, f \in BOOLEAN :
       \E b \in LockBuckets(w) : StartAlone(w, b, k, f)
  \/ \E w \in Invocations : GetCached(w)
  \/ \E w \in Invocations : SetLock(w)
  \/ \E w \in Invocations : ListPage(w)
  \/ \E w \in Invocations, error \in LockErrors : ListFail(w, error)
  \/ \E w \in Invocations : StoreResult(w)
  \/ \E w \in Invocations : GetLock(w)
  \/ \E w \in Invocations : DelLock(w)
  \/ TickSmall
  \/ TickLong
SpecStale == InitLock /\ [][NextStale]_vars

\* one invocation over a store that can fail
NextFail ==
  \/ NextEnum
  \/ GetCachedFail(1)
  \/ SetLockFail(1)
  \/ \E error \in StoreErrors : StoreResultFail(1, error)
  \/ GetLockFail(1)
  \/ DelLockFail(1)
SpecFail == Init /\ [][NextFail]_vars

\* the listing cache called directly: a store that is empty or holds every
\* listing of the model, put at time 0
FullStore ==
  [key \in Keys |->
     IF \E q \in ListTuples : KeyOf(q) = key
     THEN LET q == CHOOSE q \in ListTuples : KeyOf(q) = key IN
          Entry(JsonStringify(Page(q, 0)), S3_LIST_CACHE_TTL_SECONDS * 1000)
     ELSE NoEntry]
InitCache ==
  InitFrom({DefaultObjects}, {EmptyStore, FullStore},
           { c \in Configs : c.S3_LIST_CACHE_INVALIDATION_MODE = "targeted" })
\* the namespaces invalidated and the arguments of invalidateByPrefix
Namespaces == { <<"s1", "b1">>, <<"s1", "b2">> }
PrefixArguments ==
  { <<(<<>>), (<<>>)>>,
    <<(<<"", "a/">>), (<<>>)>>,
    <<(<<"", "a/", "a/b/">>), (<<>>)>>,
    <<(<<"">>), (<<"a/">>)>>,
    <<(<<>>), (<<"a">>)>> }
NextCache ==
  \/ \E r \in Requests, q \in ListTuples : CallGet(r, q)
  \/ \E r \in Requests, q \in ListTuples : CallPut(r, q)
  \/ \E r \in Requests, ns \in Namespaces : CallInvalidateBucket(r, ns[1], ns[2])
  \/ \E r \in Requests, ns \in Namespaces, a \in PrefixArguments :
       CallInvalidateByPrefix(r, ns[1], ns[2], a[1], a[2])
  \/ TickCache
SpecCache == InitCache /\ [][NextCache]_vars

\* the routes: listings and mutations of one bucket over a store that is
\* empty or holds every listing of the model
RouteListings ==
  { ListTuple("s1", "b1", p, Undefined, 1) : p \in {"", "a/"} } \cup
  { ListTuple(Undefined, "b1", "", Undefined, 1) }
ObjectOption(key) == [type |-> "object", key |-> key]
PrefixOption(prefix) == [type |-> "prefix", prefix |-> prefix]
RouteMutations ==
  { <<"s1", o>> : o \in { ObjectOption("a/b/c"), ObjectOption("a/b/"), ObjectOption("a//c"),
                          PrefixOption("a/"), PrefixOption("a") } } \cup
  { <<Undefined, ObjectOption("a/b/c")>> }
InitRoutes == InitFrom({DefaultObjects}, {EmptyStore, FullStore}, Configs)
NextRoutes ==
  \/ \E r \in Requests, q \in RouteListings : ListBegin(r, q)
  \/ \E r \in Requests : ListLookup(r)
  \/ \E r \in Requests : ListLookupFail(r)
  \/ \E r \in Requests : ListFetch(r)
  \/ \E r \in Requests : ListFetchFail(r)
  \/ \E r \in Requests : ListStore(r)
  \/ \E r \in Requests : ListStoreFail(r)
  \/ \E r \in Requests, m \in RouteMutations : MutateBegin(r, m[1], "b1", m[2])
  \/ \E r \in Requests : MutateUpstream(r)
  \/ \E r \in Requests : MutateUpstreamFail(r)
  \/ \E r \in Requests : MutateInvalidate(r)
  \/ \E r \in Requests : MutateInvalidateFail(r)
SpecRoutes == InitRoutes /\ [][NextRoutes]_vars

\* the listing route next to direct calls of the cache, the cache enabled or
\* disabled
BypassTuples == { q \in RouteListings : q.sessionToken # Undefined }
NextBypass ==
  \/ \E r \in Requests, q \in RouteListings : ListBegin(r, q)
  \/ \E r \in Requests : ListLookup(r)
  \/ \E r \in Requests : ListLookupFail(r)
  \/ \E r \in Requests : ListFetch(r)
  \/ \E r \in Requests : ListFetchFail(r)
  \/ \E r \in Requests : ListStore(r)
  \/ \E r \in Requests : ListStoreFail(r)
  \/ \E r \in Requests, q \in BypassTuples : CallGet(r, q)
  \/ \E r \in Requests, q \in BypassTuples : CallPut(r, q)
  \/ \E r \in Requests : CallInvalidateBucket(r, "s1", "b1")
  \/ \E r \in Requests, a \in { <<(<<"", "a/">>), (<<>>)>>, <<(<<"">>), (<<"a/">>)>> } :
       CallInvalidateByPrefix(r, "s1", "b1", a[1], a[2])
SpecBypass == InitRoutes /\ [][NextBypass]_vars

\* the sessions: the store is empty or holds one session
SessionStore ==
  [EmptyStore EXCEPT ![sessionKey(InitialToken)] =
     Entry(JsonStringify(InitialCredentials), SESSION_TTL_SECONDS * 1000)]
InitSession == InitFrom({DefaultObjects}, {EmptyStore, SessionStore}, {DefaultConfig})
NextSession ==
  \/ \E r \in Requests, credentials \in Credentials : CreateSession(r, credentials)
  \/ \E r \in Requests, credentials \in Credentials : CreateSessionFail(r, credentials)
  \/ \E r \in Requests, token \in Tokens \cup {Undefined} : RequireSessionBegin(r, token)
  \/ \E r \in Requests : GetSession(r)
  \/ \E r \in Requests, error \in StoreErrors : GetSessionFail(r, error)
  \/ \E r \in Requests : ExpireSession(r)
  \/ \E r \in Requests, error \in StoreErrors : ExpireSessionFail(r, error)
  \/ \E r \in Requests, token \in Tokens : DeleteSession(r, token)
  \/ \E r \in Requests, token \in Tokens : DeleteSessionFail(r, token)
  \/ TickSession
SpecSession == InitSession /\ [][NextSession]_vars

\* the helpers of bucket-size.ts on object counts around the two thresholds
\* and ages around the three windows
TierCounts == {9999, 10000, 50000, 99999, 100000, 250000}
TierAges == {0, HourMs - 1, HourMs, 2 * HourMs, 24 * HourMs - 1, 24 * HourMs,
             168 * HourMs - 1, 168 * HourMs}
TierResult(n) ==
  [bucket |-> "b1", totalSize |-> 100, objectCount |-> n, isApproximate |-> FALSE,
   isInaccessible |-> FALSE, calculatedAt |-> HourMs]
NextTiers ==
  \/ \E r \in Requests, n \in TierCounts : CallGetBucketSizeCacheTtlSeconds(r, n)
  \/ \E r \in Requests, n \in TierCounts, age \in TierAges :
       CallIsBucketSizeResultFresh(r, TierResult(n), HourMs + age)
  \/ \E r \in Requests, n \in TierCounts :
       CallStoreBucketSizeResult(r, "b1", "AK1", TierResult(n))
SpecTiers == Init /\ [][NextTiers]_vars

\* results stored and read directly for two buckets and two access key ids,
\* half a day apart and more
ScopeKeys == {"AK1", "AK2"}
ScopeResult(b, n, t) ==
  [bucket |-> b, totalSize |-> 100, objectCount |-> n, isApproximate |-> FALSE,
   isInaccessible |-> FALSE, calculatedAt |-> t]
NextScopes ==
  \/ \E r \in Requests, b \in Buckets, k \in ScopeKeys, n \in {5, 10000}, t \in {0, now} :
       CallStoreBucketSizeResult(r, b, k, ScopeResult(b, n, t))
  \/ \E r \in Requests, b \in Buckets, k \in ScopeKeys : CallGetCachedBucketSize(r, b, k)
  \/ TickSession
SpecScopes == Init /\ [][NextScopes]_vars

\* the steps of the invocations that the route and the scheduler start
NextInvocation ==
  \/ \E w \in Invocations : SetLock(w)
  \/ \E w \in Invocations : SetLockFail(w)
  \/ \E w \in Invocations : ListPage(w)
  \/ \E w \in Invocations, error \in LockErrors : ListFail(w, error)
  \/ \E w \in Invocations : StoreResult(w)
  \/ \E w \in Invocations, error \in StoreErrors : StoreResultFail(w, error)
  \/ \E w \in Invocations : GetLock(w)
  \/ \E w \in Invocations : GetLockFail(w)
  \/ \E w \in Invocations : DelLock(w)
  \/ \E w \in Invocations : DelLockFail(w)

\* the calculate-now route of one session, with a valid bucket name and with
\* an empty one, while the flag provider changes its answer
InitCalc == InitFrom({LockObjects}, {SessionStore}, {DefaultConfig})
NextCalc ==
  \/ \E answer \in FlagValues : SetFlag(answer)
  \/ \E r \in Requests, bucketName \in {"b1", ""} :
       CalculateNow(r, InitialToken, InitialCredentials, bucketName)
  \/ \E r \in Requests : TrackSadd(r)
  \/ \E r \in Requests : TrackExpire(r)
  \/ \E r \in Requests : TrackFail(r)
  \/ NextInvocation
SpecCalc == InitCalc /\ [][NextCalc]_vars

\* the scheduler over two sessions that have buckets tracked: one bucket
\* each, or two buckets for the first and a second session whose stored
\* value does not parse
SchedStore(buckets1, value2, buckets2) ==
  [EmptyStore EXCEPT
     ![sessionKey("s1")] = Entry(JsonStringify(InitialCredentials), SESSION_TTL_SECONDS * 1000),
     ![sessionKey("s2")] = Entry(value2, SESSION_TTL_SECONDS * 1000),
     ![sessionBucketKey("s1")] = Entry(buckets1, trackedSessionBucketsTTLSeconds * 1000),
     ![sessionBucketKey("s2")] = Entry(buckets2, trackedSessionBucketsTTLSeconds * 1000)]
SchedStores ==
  { SchedStore({"b1"}, JsonStringify([accessKeyId |-> "AK1", secretAccessKey |-> "SK2"]), {"b2"}),
    SchedStore({"b1", "b2"}, [json |-> FALSE, text |-> "{"], {"b1"}) }
InitScheduler == InitFrom({LockObjects}, SchedStores, {DefaultConfig})
NextScheduler ==
  \/ \E answer \in FlagValues : SetFlag(answer)
  \/ RegisterScheduler
  \/ CycleBegin
  \/ CycleScan
  \/ CycleSession
  \/ CycleBuckets
  \/ CycleCall
  \/ CycleAwait
  \/ CycleStoreFail
  \/ \E w \in Invocations : GetCached(w)
  \/ \E w \in Invocations : GetCachedFail(w)
  \/ NextInvocation
SpecScheduler == InitScheduler /\ [][NextScheduler]_vars

\* the scheduler while sessions log out
NextLogout ==
  \/ NextScheduler
  \/ \E r \in Requests, token \in Tokens : DeleteSession(r, token)
SpecLogout == InitScheduler /\ [][NextLogout]_vars

\* the scheduler while the sessions are idle and the clock runs past their
\* lifetime
NextIdle ==
  \/ NextScheduler
  \/ (\A w \in Invocations : ~InProgress(w)) /\ TickSession
SpecIdle == InitScheduler /\ [][NextIdle]_vars

\* gets and puts over a store in which another writer has left values that
\* are no JSON
CorruptTuples == { ListTuple("s1", "b1", p, Undefined, 1) : p \in {"", "a/"} }
CorruptStores ==
  { [key \in Keys |->
       IF \E q \in bad : KeyOf(q) = key
       THEN Entry(CorruptValue, S3_LIST_CACHE_TTL_SECONDS * 1000)
       ELSE FullStore[key]] : bad \in SUBSET CorruptTuples }
InitCorrupt == InitFrom({DefaultObjects}, CorruptStores, Configs)
NextCorrupt ==
  \/ \E r \in Requests, q \in CorruptTuples : GetRead(r, q)
  \/ \E r \in Requests : GetDelete(r)
  \/ \E r \in Requests, q \in CorruptTuples : CallPut(r, q)
  \/ TickCache
SpecCorrupt == InitCorrupt /\ [][NextCorrupt]_vars

\* every namespace of the store in use at once: the listings of the model
\* (one of them no JSON), a session with its tracked buckets, a result of
\* another access key id and a lock held by another process
OtherWorker == NumInvocations + 1
NamespaceStore ==
  [key \in Keys |->
     IF key = KeyOf(ListTuple("s1", "b1", "", Undefined, 1))
       THEN Entry(CorruptValue, S3_LIST_CACHE_TTL_SECONDS * 1000)
     ELSE IF key \in ListCacheKeys THEN FullStore[key]
     ELSE IF key = sessionKey("s1")
       THEN Entry(JsonStringify(InitialCredentials), SESSION_TTL_SECONDS * 1000)
     ELSE IF key = sessionBucketKey("s1")
       THEN Entry({"b1", "b2"}, trackedSessionBucketsTTLSeconds * 1000)
     ELSE IF key = bucketSizeKey("b1", "AK2")
       THEN Entry(ScopeResult("b1", 5, 0), getBucketSizeCacheTtlSeconds(5) * 1000)
     ELSE IF key = bucketSizeLockKey("b2", "AK1")
       THEN Entry(OtherWorker, lockTtlSeconds * 1000)
     ELSE NoEntry]
InitNamespaces == InitFrom({LockObjects}, {NamespaceStore}, {DefaultConfig})
\* no request, invocation or cycle is under way
Quiet ==
  /\ sched.pc = "idle"
  /\ \A w \in Invocations : ~InProgress(w)
  /\ \A r \in Requests :
       /\ rq[r].pc \in {"idle", "done"}
       /\ rq[r].kind = "calculate" => rq[r].track \in {"none", "done", "failed"}
\* requests and cycles arrive one after the other, in any order
NextNamespaces ==
  \/ SetFlag("on")
  \/ RegisterScheduler
  \/ Quiet /\ CycleBegin
  \/ CycleScan
  \/ CycleSession
  \/ CycleBuckets
  \/ CycleCall
  \/ CycleAwait
  \/ \E w \in Invocations : GetCached(w)
  \/ \E w \in Invocations : SetLock(w)
  \/ \E w \in Invocations : ListPage(w)
  \/ \E w \in Invocations : StoreResult(w)
  \/ \E w \in Invocations : GetLock(w)
  \/ \E w \in Invocations : DelLock(w)
  \/ \E r \in Requests, q \in CorruptTuples : Quiet /\ CallPut(r, q)
  \/ \E r \in Requests : Quiet /\ CallInvalidateBucket(r, "s1", "b1")
  \/ \E r \in Requests : Quiet /\ CallInvalidateByPrefix(r, "s1", "b1", <<"">>, <<"a/">>)
  \/ \E r \in Requests, q \in CorruptTuples : Quiet /\ GetRead(r, q)
  \/ \E r \in Requests : GetDelete(r)
  \/ \E r \in Requests : Quiet /\ CreateSession(r, InitialCredentials)
  \/ \E r \in Requests : Quiet /\ RequireSessionBegin(r, InitialToken)
  \/ \E r \in Requests : GetSession(r)
  \/ \E r \in Requests : ExpireSession(r)
  \/ \E r \in Requests : Quiet /\ DeleteSession(r, InitialToken)
  \/ \E r \in Requests : Quiet /\ CalculateNow(r, InitialToken, InitialCredentials, "b1")
  \/ \E r \in Requests : TrackSadd(r)
  \/ \E r \in Requests : TrackExpire(r)
SpecNamespaces == InitNamespaces /\ [][NextNamespaces]_vars

\* one forced invocation over an upstream that can go on returning
\* continuation tokens for ever, with pages that are empty or not; every
\* await of the invocation settles and the clock runs while it is listing
EndlessPages == { <<>>, <<Obj(1)>>, <<Obj(1), Obj(2)>> }
NextEndless ==
  \/ \E b \in Buckets, k \in AccessKeys : Start(1, b, k, TRUE)
  \/ SetLock(1)
  \/ \E contents \in EndlessPages, more \in BOOLEAN : ListPageOf(1, contents, more)
  \/ StoreResult(1)
  \/ GetLock(1)
  \/ DelLock(1)
  \/ \E d \in ListingSteps : TickListing(d)
FairEndless ==
  /\ WF_vars(SetLock(1))
  /\ WF_vars(\E contents \in EndlessPages, more \in BOOLEAN : ListPageOf(1, contents, more))
  /\ WF_vars(StoreResult(1))
  /\ WF_vars(GetLock(1))
  /\ WF_vars(DelLock(1))
  /\ WF_vars(\E d \in ListingSteps : TickListing(d))
SpecEndless == InitLock /\ [][NextEndless]_vars /\ FairEndless

TypeOK ==
  /\ now \in Nat
  /\ \A w \in Invocations : pc[w] \in {"idle", "getCached", "setLock", "list", "store",
                                       "getLock", "delLock", "done", "crashed"}

(***************************************************************************)
(* Properties of the lock (SpecLock).                                      *)
(***************************************************************************)
LockKeyOf(w) == bucketSizeLockKey(args[w].bucketName, args[w].accessKeyId)
ResultKeyOf(w) == bucketSizeKey(args[w].bucketName, args[w].accessKeyId)
LockKeys == { bucketSizeLockKey(b, k) : b \in Buckets, k \in AccessKeys }
ResultKeys == { bucketSizeKey(b, k) : b \in Buckets, k \in AccessKeys }
SamePair(v, w) ==
  /\ args[v].bucketName = args[w].bucketName
  /\ getCredentialScope(args[v].accessKeyId) = getCredentialScope(args[w].accessKeyId)

\* C1 as stated: in every reachable state at most one invocation is between
\* its lock acquisition and its lock release for a (bucket, credential-scope)
\* pair.
C1_MutualExclusion ==
  \A v, w \in Invocations :
    (v # w /\ Computing(v) /\ Computing(w)) => ~SamePair(v, w)

\* C1 amended: as long as no lock entry of a pair has run out of its
\* time-to-live while the invocation that created it was still between
\* acquisition and release, at most one invocation is between acquisition and
\* release for that pair.
C1_MutualExclusionWhileLockLives ==
  \A v, w \in Invocations :
    (v # w /\ Computing(v) /\ Computing(w) /\ SamePair(v, w))
      => \E u \in Invocations : SamePair(u, v) /\ hist[u].lockExpired

\* C1 witness: one invocation computes a pair, a second one for the same pair
\* was turned away, and no lock has expired.
C1_Witness ==
  \E v, w \in Invocations :
    /\ v # w /\ SamePair(v, w)
    /\ pc[v] = "list" /\ status[w] = "already-locked"
    /\ \A u \in Invocations : ~hist[u].lockExpired

\* C2: an invocation deletes the lock entry only if the entry carries its own
\* worker id at the moment of the deletion; it never removes an entry another
\* invocation created.
C2_ReleaseRespectsOwnership ==
  [][\A w \in Invocations :
       (pc[w] = "delLock" /\ pc'[w] = "done")
         => LockOwnerAt(LockKeyOf(w)) \in {Null, w}]_vars

\* C3: an invocation that reaches its lock acquisition while an entry exists
\* for its pair returns already-locked, has called the upstream listing zero
\* times, and leaves the whole store (stored results, lock entries and their
\* expiry) as it was.
C3_LockDenied ==
  [][\A w \in Invocations :
       (pc[w] = "setLock" /\ pc'[w] \notin {"setLock", "crashed"} /\ Exists(LockKeyOf(w)))
         => /\ pc'[w] = "done"
            /\ status'[w] = "already-locked"
            /\ redis' = redis
            /\ hist[w].calls = 0 /\ hist'[w].calls = 0
            /\ ~hist'[w].acquired]_vars

\* C3 witness: an invocation was turned away while the holder of the lock is
\* still running and the lock entry is the holder's.
C3_Witness ==
  \E v, w \in Invocations :
    /\ v # w /\ SamePair(v, w)
    /\ status[w] = "already-locked" /\ hist[w].calls = 0
    /\ Computing(v) /\ LockOwnerAt(LockKeyOf(v)) = v

\* C4: once an invocation that acquired the lock has returned, whatever the
\* outcome of its enumeration, the lock entry does not carry its worker id.
C4_ReleasedOnReturn ==
  \A w \in Invocations :
    (pc[w] = "done" /\ hist[w].acquired)
      => /\ status[w] = "calculated"
         /\ LockOwnerAt(LockKeyOf(w)) # w

\* C4 witness: an invocation whose enumeration failed has returned, its lock
\* never expired, and the lock entry of its pair is gone.
C4_Witness ==
  \E w \in Invocations :
    /\ pc[w] = "done" /\ hist[w].acquired /\ ~hist[w].lockExpired
    /\ ~Exists(LockKeyOf(w))
    /\ Exists(ResultKeyOf(w))
    /\ "error" \in DOMAIN redis[ResultKeyOf(w)].value

\* C5: a lock entry is created with a time-to-live of
\* max(ceil(maxDuration / 1000) + 60, 300) seconds, nothing ever prolongs it,
\* and it is gone from the store once that time has elapsed, so an entry whose
\* holder died cannot keep later invocations out for longer than that.
C5_ClaimedTtlMs == Max(Ceil(BUCKET_SIZE_MAX_DURATION_MS, 1000) + 60, 300) * 1000
C5_LockCannotWedge ==
  /\ [](\A key \in LockKeys :
          Exists(key) =>
            /\ now < redis[key].expiresAt
            /\ redis[key].expiresAt <= now + C5_ClaimedTtlMs)
  /\ [][/\ \A w \in Invocations :
            (hist'[w].acquired /\ ~hist[w].acquired)
              => redis'[LockKeyOf(w)] = Entry(w, now + C5_ClaimedTtlMs)
        /\ \A key \in LockKeys :
            (Exists(key) /\ redis'[key].exists /\ redis'[key].value = redis[key].value)
              => redis'[key].expiresAt = redis[key].expiresAt]_vars

\* C5 witness: the holder of a lock died without releasing it, and a later
\* invocation for the same pair holds the lock.
C5_Witness ==
  \E v, w \in Invocations :
    /\ v # w /\ SamePair(v, w)
    /\ pc[v] = "crashed" /\ hist[v].acquired /\ ~hist[v].lockExpired
    /\ Computing(w) /\ LockOwnerAt(LockKeyOf(w)) = w

(***************************************************************************)
(* Properties of the freshness test (SpecSeq) and of the enumeration       *)
(* (SpecEnum).                                                             *)
(***************************************************************************)
\* C6: a call without force that finds a fresh stored result returns
\* already-fresh, has called the upstream zero times, has created no lock
\* entry and leaves the store as it was; a call with force goes straight to
\* the lock acquisition and never returns already-fresh.
C6_SkippedFresh ==
  [][\A w \in Invocations :
       /\ ( /\ pc[w] = "getCached" /\ pc'[w] # "getCached"
            /\ Exists(ResultKeyOf(w))
            /\ isBucketSizeResultFresh(redis[ResultKeyOf(w)].value, now) )
          => /\ pc'[w] = "done" /\ status'[w] = "already-fresh"
             /\ redis' = redis
             /\ hist'[w].calls = 0 /\ ~hist'[w].acquired
       /\ (pc[w] = "idle" /\ pc'[w] # "idle" /\ args'[w].force) => pc'[w] = "setLock"
       /\ status'[w] = "already-fresh" => ~args'[w].force]_vars

\* C6 witness: a call without force was answered already-fresh on the result
\* an earlier call for the same pair had stored a long time before.
C6_Witness ==
  \E v, w \in Invocations :
    /\ v # w /\ SamePair(v, w)
    /\ pc[v] = "done" /\ hist[v].acquired
    /\ status[w] = "already-fresh" /\ hist[w].calls = 0 /\ ~args[w].force
    /\ Exists(ResultKeyOf(w))
    /\ now - redis[ResultKeyOf(w)].value.calculatedAt >= LongStepMs

RECURSIVE SumSizes(_)
SumSizes(items) ==
  IF items = <<>> THEN 0
  ELSE (IF "Size" \in DOMAIN Head(items) THEN Head(items).Size ELSE 0) + SumSizes(Tail(items))

\* C7: when no list call fails, the bucket holds fewer objects than the cap
\* and the enumeration ends within the maximum duration, the stored result
\* has the bucket's object count and the sum of the sizes (a missing size
\* counts 0), is neither approximate nor inaccessible and has no error, and
\* the call returns calculated.
C7_FullCount ==
  [][\A w \in Invocations :
       LET b == args[w].bucketName
           r == redis'[ResultKeyOf(w)].value
       IN
       /\ ( /\ pc[w] = "store" /\ pc'[w] = "getLock"
            /\ loc[w].error = NoFailure
            /\ Len(objects[b]) < BUCKET_SIZE_MAX_OBJECTS
            /\ now - loc[w].startedAt <= BUCKET_SIZE_MAX_DURATION_MS )
          => /\ redis'[ResultKeyOf(w)].exists
             /\ r.objectCount = Len(objects[b])
             /\ r.totalSize = SumSizes(objects[b])
             /\ ~r.isApproximate /\ ~r.isInaccessible
             /\ "error" \notin DOMAIN r
       /\ (pc[w] \in {"getLock", "delLock"} /\ pc'[w] = "done")
          => status'[w] = "calculated"]_vars

\* C7 witness: a call without force on an empty store has stored
\* objectCount = 1 for a bucket of one object.
C7_Witness ==
  \E w \in Invocations :
    /\ ~args[w].force /\ pc[w] = "getLock"
    /\ Len(objects[args[w].bucketName]) = 1
    /\ Exists(ResultKeyOf(w))
    /\ redis[ResultKeyOf(w)].value.objectCount = 1
    /\ ~redis[ResultKeyOf(w)].value.isApproximate

\* the result a successful enumeration is about to store
SuccessPending(w) == pc[w] = "store" /\ loc[w].error = NoFailure

\* C8 as stated: a successful enumeration is approximate exactly when it
\* stopped before the end of the bucket; one that counted every object of a
\* bucket not above the cap within the duration limit is not approximate.
C8_ApproximateIffStoppedEarly ==
  \A w \in Invocations :
    SuccessPending(w) =>
      LET r == loc[w].pending
          n == Len(objects[args[w].bucketName])
      IN
      /\ r.isApproximate <=> r.objectCount < n
      /\ ( /\ r.objectCount = n /\ n <= BUCKET_SIZE_MAX_OBJECTS
           /\ r.calculatedAt - loc[w].startedAt <= BUCKET_SIZE_MAX_DURATION_MS )
         => ~r.isApproximate

\* C8 amended: a successful enumeration is approximate exactly when its
\* object count reached the cap (count >= cap, then count = cap) or it stopped
\* before the end of the bucket with the maximum duration exceeded; one that
\* counted every object of a bucket below the cap is not approximate.
C8_ApproximateIffCapReachedOrTimedOut ==
  \A w \in Invocations :
    SuccessPending(w) =>
      LET r == loc[w].pending
          n == Len(objects[args[w].bucketName])
      IN
      /\ r.isApproximate <=>
           \/ r.objectCount >= BUCKET_SIZE_MAX_OBJECTS
           \/ /\ r.objectCount < n
              /\ r.calculatedAt - loc[w].startedAt > BUCKET_SIZE_MAX_DURATION_MS
      /\ r.objectCount <= BUCKET_SIZE_MAX_OBJECTS
      /\ (r.objectCount = n /\ n < BUCKET_SIZE_MAX_OBJECTS) => ~r.isApproximate

\* C8 witness: an enumeration stopped below the cap because the maximum
\* duration was exceeded, and its result is approximate.
C8_Witness ==
  \E w \in Invocations :
    /\ SuccessPending(w)
    /\ loc[w].pending.isApproximate
    /\ loc[w].pending.objectCount < BUCKET_SIZE_MAX_OBJECTS
    /\ loc[w].pending.objectCount > 0

\* permission denied as the claims word it
PermissionDeniedFailure(e) ==
  /\ e # NoFailure
  /\ e.isObject
  /\ \/ FirstNonEmpty(e.Code, e.code, e.name) \in {"AccessDenied", "Forbidden"}
     \/ e.status = 403
OtherFailure(e) == e # NoFailure /\ ~PermissionDeniedFailure(e)

\* C9: after a permission-denied failure of a list call the invocation sends
\* no further list call, stores a result with isInaccessible = true, zero size
\* and count and a non-empty error, and returns calculated.
C9_PermissionDeniedStored ==
  [][\A w \in Invocations :
       LET r == redis'[ResultKeyOf(w)].value IN
       /\ (pc[w] = "list" /\ PermissionDeniedFailure(loc'[w].error)) => pc'[w] = "store"
       /\ PermissionDeniedFailure(loc[w].error) =>
            /\ hist'[w].calls = hist[w].calls
            /\ pc'[w] # "list"
            /\ (pc[w] = "store" /\ pc'[w] = "getLock") =>
                 /\ redis'[ResultKeyOf(w)].exists
                 /\ r.isInaccessible /\ r.totalSize = 0 /\ r.objectCount = 0
                 /\ "error" \in DOMAIN r /\ r.error # ""
            /\ pc'[w] = "done" => status'[w] = "calculated"]_vars

\* C9 witness: the second list call was answered 403 with a code that is not
\* AccessDenied, and the stored result is inaccessible with zero count.
C9_Witness ==
  \E w \in Invocations :
    /\ pc[w] = "getLock" /\ hist[w].calls = 2
    /\ PermissionDeniedFailure(loc[w].error)
    /\ loc[w].error.status = 403 /\ loc[w].error.name = "InvalidAccessKeyId"
    /\ loc[w].totalSize > 0
    /\ Exists(ResultKeyOf(w))
    /\ redis[ResultKeyOf(w)].value.isInaccessible
    /\ redis[ResultKeyOf(w)].value.objectCount = 0

FailedStored(r) == "error" \in DOMAIN r /\ r.isApproximate /\ ~r.isInaccessible

\* C10: after any other failure of a list call the invocation stores a result
\* with isApproximate = true, isInaccessible = false, zero size and count and
\* the error's message, kept in the store for at least its freshness window,
\* and returns calculated; a later call without force that finds this result
\* returns already-fresh while the result is younger than one hour and goes on
\* to the lock acquisition once it is not.
C10_OtherFailureStored ==
  [][\A w \in Invocations :
       LET key == ResultKeyOf(w)
           e == loc[w].error
           r == redis'[key].value
       IN
       /\ (OtherFailure(e) /\ pc[w] = "store" /\ pc'[w] = "getLock") =>
            /\ redis'[key].exists
            /\ r.isApproximate /\ ~r.isInaccessible
            /\ r.totalSize = 0 /\ r.objectCount = 0
            /\ "error" \in DOMAIN r
            /\ e.isError => r.error = e.message
            /\ redis'[key].expiresAt >= r.calculatedAt + HourMs
       /\ (OtherFailure(e) /\ pc'[w] = "done") => status'[w] = "calculated"
       /\ ( /\ pc[w] = "getCached" /\ pc'[w] # "getCached"
            /\ Exists(key) /\ FailedStored(redis[key].value) )
          => IF now - redis[key].value.calculatedAt < HourMs
             THEN pc'[w] = "done" /\ status'[w] = "already-fresh" /\ redis' = redis
             ELSE pc'[w] = "setLock"]_vars

\* C10 witness: a call without force has passed the freshness test on a
\* stored failure result that is an hour old or more.
C10_Witness ==
  \E w \in Invocations :
    /\ ~args[w].force /\ pc[w] = "setLock"
    /\ Exists(ResultKeyOf(w))
    /\ FailedStored(redis[ResultKeyOf(w)].value)
    /\ now - redis[ResultKeyOf(w)].value.calculatedAt >= HourMs

(***************************************************************************)
(* Properties of the failure handling (SpecFail).                          *)
(***************************************************************************)
\* C11: no invocation ever completes by throwing or rejecting, whatever
\* failed on its way (the upstream listing, or the shared store while reading
\* the cached result, acquiring the lock, storing the result or releasing the
\* lock): every invocation that ends returns a status.
C11_ErrorsNeverEscape ==
  \A w \in Invocations :
    pc[w] = "done" => status[w] \in {"calculated", "already-locked", "already-fresh"}

(***************************************************************************)
(* Properties of the listing cache called directly (SpecCache).            *)
(***************************************************************************)
CacheEnabled == config.S3_LIST_CACHE_ENABLED
CacheTtlMs == S3_LIST_CACHE_TTL_SECONDS * 1000
\* request r makes its call in this step
Calls(r, kind) == rq[r].pc = "idle" /\ rq'[r].pc = "done" /\ rq'[r].kind = kind
InNamespace(q, sessionToken, bucket) == q.sessionToken = sessionToken /\ q.bucket = bucket
\* what a get of q would return in the store
Cached(store, q) == getCachedListObjectsResponse(store, config, q, now).result

\* C12: with the cache enabled, a put writes its page with the fixed
\* time-to-live; a get that follows a put of the same tuple returns exactly
\* that page as long as the time-to-live has not elapsed since the put and
\* absent once it has; a get leaves the store, entry and expiry, as it was.
C12_RoundTrip ==
  [][\A r \in Requests :
       /\ (Calls(r, "put") /\ CacheEnabled)
          => redis'[KeyOf(rq'[r].q)] = Entry(JsonStringify(rq'[r].page), now + CacheTtlMs)
       /\ (Calls(r, "get") /\ CacheEnabled)
          => /\ redis' = redis
             /\ (r > 1 /\ rq[r - 1].kind = "put" /\ rq[r - 1].q = rq'[r].q)
                  => rq'[r].result =
                       IF now < rq[r - 1].at + CacheTtlMs THEN rq[r - 1].page ELSE Absent]_vars

\* C12 witness: a get returned the page the call before it had put over an
\* older page of the same tuple.
C12_Witness ==
  \E r \in Requests :
    /\ r > 1 /\ rq[r].kind = "get" /\ rq[r - 1].kind = "put" /\ rq[r - 1].q = rq[r].q
    /\ rq[r].result = rq[r - 1].page
    /\ rq[r].result.rev = r - 1

\* every listing the model's components can form
AllTuples ==
  { ListTuple(t, b, p, c, n) :
      t \in Tokens, b \in Buckets, p \in Prefixes, c \in {Undefined, "t1"}, n \in {1, 2} }
KeysDistinct ==
  \A q1 \in AllTuples : \A q2 \in AllTuples :
    q1 # q2 =>
      listCacheKey(q1.sessionToken, q1.bucket, q1.prefix, q1.continuationToken, q1.maxKeys)
        # listCacheKey(q2.sessionToken, q2.bucket, q2.prefix, q2.continuationToken, q2.maxKeys)

\* C13: distinct (session, bucket, prefix, cursor, pageSize) tuples have
\* distinct store keys, and a put under one tuple changes what a get returns
\* for no tuple that differs from it in any component: a get returns a page
\* only if it was put under exactly its tuple.
C13_ExactKey ==
  /\ []KeysDistinct
  /\ [][\A r \in Requests :
          Calls(r, "put")
            => \A q \in ListTuples :
                 q # rq'[r].q => /\ redis'[KeyOf(q)] = redis[KeyOf(q)]
                                 /\ Cached(redis', q) = Cached(redis, q)]_vars

\* C13 witness: after a put of the first page of a prefix, a get of the same
\* session, bucket, prefix and page size with a cursor returned absent.
C13_Witness ==
  \E r \in Requests :
    /\ r > 1 /\ rq[r].kind = "get" /\ rq[r - 1].kind = "put"
    /\ rq[r - 1].q = [rq[r].q EXCEPT !.continuationToken = Undefined]
    /\ rq[r].q.continuationToken = "t1"
    /\ rq[r].result = Absent
    /\ redis[KeyOf(rq[r - 1].q)].exists

\* the entries invalidateByPrefix is to delete
PrefixMatches(q, sessionToken, bucket, exactPrefixes, prefixesWithChildren) ==
  /\ InNamespace(q, sessionToken, bucket)
  /\ \/ q.prefix \in Range(exactPrefixes)
     \/ \E p \in Range(prefixesWithChildren) : StartsWith(q.prefix, p)

\* C14: with the cache enabled, invalidateByPrefix deletes exactly the
\* entries of the session and bucket whose prefix is one of exactPrefixes or
\* starts with one of prefixesWithChildren, whatever their cursor and page
\* size, leaves every other entry of the store as it was, and returns the
\* number of entries it deleted.
C14_InvalidateByPrefix ==
  [][\A r \in Requests :
       (Calls(r, "invalidateByPrefix") /\ CacheEnabled)
         => LET c == rq'[r]
                doomed == { q \in ListTuples :
                              PrefixMatches(q, c.sessionToken, c.bucket,
                                            c.exactPrefixes, c.prefixesWithChildren) }
            IN /\ \A q \in doomed : ~redis'[KeyOf(q)].exists
               /\ \A key \in Keys \ { KeyOf(q) : q \in doomed } : redis'[key] = redis[key]
               /\ c.result = Cardinality({ q \in doomed : redis[KeyOf(q)].exists })]_vars

\* C14 witness: a call with a prefix with children deleted several entries
\* and left an entry of the same session and bucket in the store.
C14_Witness ==
  \E r \in Requests :
    /\ rq[r].kind = "invalidateByPrefix"
    /\ Len(rq[r].prefixesWithChildren) > 0
    /\ rq[r].result >= 3
    /\ \E q \in ListTuples :
         InNamespace(q, rq[r].sessionToken, rq[r].bucket) /\ redis[KeyOf(q)].exists

\* C15: with the cache enabled, invalidateBucket deletes every entry of the
\* session and bucket, so that a get of any listing of them returns absent,
\* leaves every other entry of the store as it was, and returns the number of
\* entries it deleted; an entry comes into the store by a put only.
C15_InvalidateBucket ==
  [][/\ \A r \in Requests :
          (Calls(r, "invalidateBucket") /\ CacheEnabled)
            => LET c == rq'[r]
                   doomed == { q \in ListTuples : InNamespace(q, c.sessionToken, c.bucket) }
               IN /\ \A q \in doomed : Cached(redis', q) = Absent
                  /\ \A key \in Keys \ { KeyOf(q) : q \in doomed } : redis'[key] = redis[key]
                  /\ c.result = Cardinality({ q \in doomed : redis[KeyOf(q)].exists })
     /\ \A q \in ListTuples :
          (~redis[KeyOf(q)].exists /\ redis'[KeyOf(q)].exists)
            => \E r \in Requests : Calls(r, "put") /\ rq'[r].q = q]_vars

\* C15 witness: a call deleted several entries of a bucket while the same
\* session keeps an entry of another bucket and another session one of the
\* same bucket.
C15_Witness ==
  \E r \in Requests :
    /\ rq[r].kind = "invalidateBucket" /\ rq[r].result >= 3
    /\ \E q \in ListTuples :
         /\ q.sessionToken = rq[r].sessionToken /\ q.bucket # rq[r].bucket
         /\ redis[KeyOf(q)].exists
    /\ \E q \in ListTuples :
         /\ q.sessionToken # rq[r].sessionToken /\ q.bucket = rq[r].bucket
         /\ redis[KeyOf(q)].exists

\* the invalidation of mutation r runs to its end in this step, the cache
\* being enabled in the given mode and the request carrying a session token
Invalidates(r, mode, type) ==
  /\ rq[r].kind = "mutation" /\ rq[r].pc = "invalidate"
  /\ rq'[r].pc = "done" /\ ~rq'[r].invalidationError
  /\ CacheEnabled /\ config.S3_LIST_CACHE_INVALIDATION_MODE = mode
  /\ rq[r].sessionToken # Undefined /\ rq[r].options.type = type
\* the root prefix and each directory level down to the directory
AncestorChain(directory) ==
  { p \in Prefixes : p = "" \/ (EndsWith(p, "/") /\ StartsWith(directory, p)) }
\* the store after the step holds no entry of the doomed listings and every
\* other entry as before
DeletesExactly(doomed) ==
  /\ \A q \in doomed : ~redis'[KeyOf(q)].exists
  /\ \A key \in Keys \ { KeyOf(q) : q \in doomed } : redis'[key] = redis[key]

\* C16: in targeted mode the invalidation that follows an upload, a folder
\* creation or a single-object delete of key K deletes the session's cached
\* pages of every prefix on the ancestor chain of K's parent directory (the
\* root prefix and each directory level down to the parent) and leaves every
\* other cached page as it was.
C16_ObjectMutation ==
  [][\A r \in Requests :
       Invalidates(r, "targeted", "object")
         => LET u == rq[r]
                parent == SubSeq(u.options.key, 1, LastIndexOf(u.options.key, "/"))
            IN DeletesExactly({ q \in ListTuples :
                                  /\ InNamespace(q, u.sessionToken, u.bucket)
                                  /\ q.prefix \in AncestorChain(parent) })]_vars

\* C17: in targeted mode the invalidation that follows a recursive delete of
\* prefix P deletes the session's cached pages of every prefix on the
\* ancestor chain of P and of every prefix that starts with P, and leaves
\* every other cached page as it was.
C17_PrefixMutation ==
  [][\A r \in Requests :
       Invalidates(r, "targeted", "prefix")
         => LET u == rq[r] IN
            DeletesExactly({ q \in ListTuples :
                               /\ InNamespace(q, u.sessionToken, u.bucket)
                               /\ \/ q.prefix \in AncestorChain(u.options.prefix)
                                  \/ StartsWith(q.prefix, u.options.prefix) })]_vars

\* C18: once a mutation of key K has returned its success response, a get by
\* the same session for any ancestor prefix of K returns absent as long as
\* no put has been made.
C18_InvalidatedBeforeResponse ==
  (CacheEnabled /\ \A l \in Requests : rq[l].kind = "list" => rq[l].writes = 0)
    => \A u \in Responded :
         (rq[u].sessionToken # Undefined /\ rq[u].options.type = "object")
           => \A q \in ListTuples :
                (/\ InNamespace(q, rq[u].sessionToken, rq[u].bucket)
                 /\ q.prefix \in AncestorChain(getParentPrefixFromObjectKey(rq[u].options.key)))
                  => Cached(redis, q) = Absent

\* the list request goes straight to the upstream listing
Bypassed(l) == l.kind = "list" /\ (~CacheEnabled \/ l.q.sessionToken = Undefined)
\* the list request returns its response in this step
Returns(r) == rq[r].kind = "list" /\ rq[r].pc = "fetch" /\ rq'[r].pc \in {"store", "done"}

C21_CacheErrorsSwallowed ==
  [][\A r \in Requests :
       /\ (rq[r].kind = "list" /\ rq[r].pc = "store")
            => /\ rq[r].response # Absent
               /\ rq'[r].pc \in {"store", "done"}
               /\ rq'[r].response = rq[r].response /\ rq'[r].header = rq[r].header
       /\ (rq[r].kind = "mutation" /\ rq[r].pc = "invalidate")
            => /\ rq[r].response = [ok |-> TRUE]
               /\ rq'[r].pc \in {"invalidate", "done"}
               /\ rq'[r].response = rq[r].response]_vars

\* C21 witness: a mutation whose invalidation was rejected has its success
\* response, and a list request whose cache write was rejected has the
\* upstream page it returned with MISS.
C21_Witness ==
  /\ \E r \in Requests :
       /\ rq[r].kind = "mutation" /\ rq[r].pc = "done" /\ rq[r].invalidationError
       /\ rq[r].response = [ok |-> TRUE]
  /\ \E r \in Requests :
       /\ rq[r].kind = "list" /\ rq[r].pc = "done" /\ rq[r].storeError
       /\ rq[r].header = "MISS" /\ rq[r].response = Page(rq[r].q, 1)

\* C22: with the cache enabled and reachable, a lookup that finds an entry
\* ends the request with HIT and the cached page, the upstream not being
\* called; a lookup that finds none reports MISS, the upstream is called and
\* its page is returned and put under the exact key of the request, so that
\* the same request repeated after the put is a HIT with the same page.
C22_CacheSignal ==
  [][\A r \in Requests :
       /\ (rq[r].kind = "list" /\ rq[r].pc = "lookup" /\ rq'[r].pc # "lookup"
             /\ ~rq'[r].lookupError)
            => IF Cached(redis, rq[r].q) # Absent
               THEN /\ rq'[r].header = "HIT" /\ rq'[r].pc = "done"
                    /\ rq'[r].response = Cached(redis, rq[r].q)
               ELSE rq'[r].header = "MISS" /\ rq'[r].pc = "fetch"
       /\ (rq'[r].kind = "list" /\ rq'[r].header = "HIT")
            => (rq'[r].pc = "done" /\ rq'[r].writes = 0)
       /\ (Returns(r) /\ rq[r].header = "MISS")
            => /\ rq'[r].response = Page(rq[r].q, tree[rq[r].q.bucket])
               /\ rq'[r].pc = "store"
       /\ (rq[r].kind = "list" /\ rq[r].pc = "store" /\ rq'[r].pc = "done"
             /\ ~rq'[r].storeError)
            => /\ Cached(redis', rq[r].q) = rq[r].response
               /\ \A key \in Keys \ {KeyOf(rq[r].q)} : redis'[key] = redis[key]]_vars

\* C22 witness: a list request was a MISS and put its page, and the same
\* request repeated was a HIT with that page.
C22_Witness ==
  \E r1 \in Requests : \E r2 \in Requests :
    /\ r1 < r2 /\ rq[r1].kind = "list" /\ rq[r2].kind = "list" /\ rq[r1].q = rq[r2].q
    /\ rq[r1].pc = "done" /\ rq[r1].header = "MISS" /\ rq[r1].writes = 1 /\ ~rq[r1].storeError
    /\ rq[r2].pc = "done" /\ rq[r2].header = "HIT" /\ rq[r2].response = rq[r1].response

\* the freshness window of a result of n objects, in milliseconds
W(n) == IF n < 10000 THEN HourMs ELSE IF n < 100000 THEN 24 * HourMs ELSE 7 * 24 * HourMs

\* C27: a result is fresh at a time exactly when its age is less than
\* W(objectCount), one hour below 10000 objects, 24 hours below 100000 and 7
\* days from there; the cache time-to-live of an object count is W in
\* seconds (3600, 86400, 604800), and a result is stored to expire W after
\* the time it is stored.
C27_FreshnessTiers ==
  \A r \in Requests :
    /\ rq[r].kind = "isBucketSizeResultFresh"
         => (rq[r].result <=> (rq[r].at - rq[r].value.calculatedAt < W(rq[r].value.objectCount)))
    /\ rq[r].kind = "getBucketSizeCacheTtlSeconds"
         => /\ rq[r].result * 1000 = W(rq[r].objectCount)
            /\ rq[r].result \in {3600, 86400, 604800}
    /\ (rq[r].kind = "storeBucketSizeResult"
          /\ \A v \in Requests : v > r => rq[v].kind # "storeBucketSizeResult")
         => LET entry == redis[bucketSizeKey(rq[r].bucketName, rq[r].accessKeyId)] IN
            /\ entry.exists /\ entry.value = rq[r].value
            /\ entry.expiresAt = now + W(rq[r].value.objectCount)

\* C27 witness: a result of 10000 objects was found fresh two hours after
\* its calculation, and a result of 100000 objects is stored for 7 days.
C27_Witness ==
  /\ \E r \in Requests :
       /\ rq[r].kind = "isBucketSizeResultFresh" /\ rq[r].value.objectCount = 10000
       /\ rq[r].at - rq[r].value.calculatedAt = 2 * HourMs /\ rq[r].result
  /\ \E r \in Requests :
       /\ rq[r].kind = "storeBucketSizeResult" /\ rq[r].value.objectCount = 100000
       /\ redis[bucketSizeKey("b1", "AK1")].expiresAt = now + 604800 * 1000

(***************************************************************************)
(* Properties of the sessions (SpecSession).                               *)
(***************************************************************************)
SessionTtlMs == SESSION_TTL_SECONDS * 1000
\* the lookup of request r returns in this step, with credentials or absent
LookupReturns(r) ==
  /\ rq[r].kind = "requireSession" /\ rq[r].pc \in {"get", "expire"}
  /\ rq'[r].pc = "done" /\ ~rq'[r].storeError
\* the read of the store by the lookup of request r resolves in this step
Reads(r) ==
  /\ rq[r].kind = "requireSession" /\ rq[r].pc = "get"
  /\ rq'[r].pc # "get" /\ ~rq'[r].storeError
\* a delete of the token has been called
Deleted(token) ==
  \E d \in Requests : rq[d].kind = "deleteSession" /\ rq[d].pc = "done" /\ rq[d].token = token

\* C23: a lookup that returns credentials of a session that was not deleted
\* leaves the session with the full session lifetime, not less than it had
\* before; a lookup that returns absent leaves the store as it was.
C23_SlidingExpiration ==
  [][\A r \in Requests :
       LookupReturns(r)
         => LET key == sessionKey(rq[r].token) IN
            IF rq'[r].authenticated
            THEN Deleted(rq[r].token)
                 \/ /\ redis'[key].exists
                    /\ redis'[key].expiresAt = now + SessionTtlMs
                    /\ redis[key].exists => redis'[key].expiresAt >= redis[key].expiresAt
            ELSE redis' = redis]_vars

\* the credentials token was created with
CreatedWith(token) ==
  IF \E c \in Requests : rq[c].kind = "createSession" /\ rq[c].result = token
  THEN rq[CHOOSE c \in Requests : rq[c].kind = "createSession" /\ rq[c].result = token].credentials
  ELSE InitialCredentials

\* C24: a create stores its credentials under a token no session has; the
\* credentials stored under a token never change and are those of its
\* create; a lookup returns the credentials the store holds under the token
\* when it reads it, and absent when the store holds none, the token never
\* created, expired or deleted.
C24_OneCredentialPair ==
  /\ [](\A token \in Tokens :
          redis[sessionKey(token)].exists
            => JsonParse(redis[sessionKey(token)].value) = CreatedWith(token))
  /\ [][\A r \in Requests :
          /\ Calls(r, "createSession")
               => LET key == sessionKey(rq'[r].result) IN
                  /\ ~redis[key].exists
                  /\ redis' = [redis EXCEPT ![key] =
                                  Entry(JsonStringify(rq'[r].credentials), now + SessionTtlMs)]
          /\ \A token \in Tokens :
               (redis[sessionKey(token)].exists /\ redis'[sessionKey(token)].exists)
                 => redis'[sessionKey(token)].value = redis[sessionKey(token)].value
          /\ Reads(r)
               => IF redis[sessionKey(rq[r].token)].exists
                  THEN rq'[r].pc = "expire" /\ rq'[r].data = redis[sessionKey(rq[r].token)].value
                  ELSE rq'[r].pc = "done" /\ rq'[r].result = Absent /\ ~rq'[r].authenticated
          /\ (LookupReturns(r) /\ rq'[r].authenticated)
               => rq'[r].result = CreatedWith(rq[r].token)]_vars

\* C24 witness: a session was created with the second credential pair and a
\* lookup of its token returned that pair, while a lookup of the other
\* token returned absent.
C24_Witness ==
  \E c \in Requests : \E r \in Requests :
    /\ rq[c].kind = "createSession" /\ rq[c].pc = "done"
    /\ rq[c].credentials # InitialCredentials
    /\ rq[r].kind = "requireSession" /\ rq[r].token = rq[c].result
    /\ rq[r].authenticated /\ rq[r].result = rq[c].credentials
    /\ ~redis[sessionKey(InitialToken)].exists

\* C25: a delete removes the session of the token and nothing else, and
\* ends without error whether the session is there or not; where there is
\* none the store stays as it was; once a delete of a token has ended, the
\* store holds no session of it and a lookup that reads the store returns
\* absent.
C25_DeleteIdempotent ==
  /\ [](\A token \in Tokens : Deleted(token) => ~redis[sessionKey(token)].exists)
  /\ [][\A r \in Requests :
          /\ (rq[r].pc = "idle" /\ rq'[r].kind = "deleteSession" /\ ~rq'[r].storeError)
               => rq'[r].pc = "done"
          /\ Calls(r, "deleteSession")
               => /\ redis' = [redis EXCEPT ![sessionKey(rq'[r].token)] = NoEntry]
                  /\ ~redis[sessionKey(rq'[r].token)].exists => redis' = redis
          /\ (Reads(r) /\ Deleted(rq[r].token))
               => (rq'[r].pc = "done" /\ rq'[r].result = Absent /\ ~rq'[r].authenticated)]_vars

\* C25 witness: the token of the session was deleted twice, the second
\* delete finding no session and ending without error.
C25_Witness ==
  /\ ~redis[sessionKey(InitialToken)].exists /\ now = 0
  /\ rq[1].kind = "deleteSession" /\ rq[1].pc = "done" /\ rq[1].token = InitialToken
  /\ rq[2].kind = "deleteSession" /\ rq[2].pc = "done" /\ rq[2].token = InitialToken

\* C26: a request whose session lookup met a failure of the store is not
\* authenticated and is answered with the status of "not authenticated".
C26_StoreFailureIsNotAuthenticated ==
  \A r \in Requests :
    (rq[r].kind = "requireSession" /\ rq[r].storeError)
      => (~rq[r].authenticated /\ rq[r].statusCode = 401)

(***************************************************************************)
(* Properties of the calculate-now route (SpecCalc).                       *)
(***************************************************************************)
\* request r is answered by the calculate-now route in this step
Answers(r) == rq[r].pc = "idle" /\ rq'[r].pc # "idle" /\ rq'[r].kind = "calculate"
ToggleEnabled == isBackgroundBucketSizeCalculationEnabled(flag)

\* C28 as stated: the calculate-now action always returns "accepted", that
\* is every reply of the route has status 202.
C28_AlwaysAccepted ==
  \A r \in Requests : rq[r].kind = "calculate" => rq[r].statusCode = 202

\* C28, amended: while the feature toggle is enabled, the calculate-now
\* action with a valid bucket name returns "accepted" (202) in the step that
\* starts the forced computation, before that computation has finished, and
\* the reply stays what it is whatever the computation does afterwards;
\* while the toggle is disabled the route replies 404 and starts no
\* computation.
C28_AcceptedWhenEnabled ==
  [][\A r \in Requests :
       /\ (Answers(r) /\ ToggleEnabled /\ rq'[r].bucketName # "")
            => /\ rq'[r].statusCode = 202
               /\ rq'[r].invocation \in Invocations
               /\ pc[rq'[r].invocation] = "idle"
               /\ pc'[rq'[r].invocation] \in {"getCached", "setLock"}
               /\ args'[rq'[r].invocation] =
                    [bucketName |-> rq'[r].bucketName, accessKeyId |-> "AK1", force |-> TRUE]
       /\ (Answers(r) /\ ~ToggleEnabled)
            => (rq'[r].statusCode = 404 /\ pc' = pc /\ args' = args)
       /\ rq[r].kind = "calculate"
            => (rq'[r].statusCode = rq[r].statusCode /\ rq'[r].body = rq[r].body
                /\ rq'[r].pc = "done")]_vars

\* two accepted requests whose computations have ended, one finding the
\* lock taken and the other failing on the store
C28_Witness ==
  \E r1, r2 \in Requests :
    /\ rq[r1].kind = "calculate" /\ rq[r1].statusCode = 202
    /\ rq[r2].kind = "calculate" /\ rq[r2].statusCode = 202
    /\ pc[rq[r1].invocation] = "done" /\ status[rq[r1].invocation] = "already-locked"
    /\ pc[rq[r2].invocation] = "done" /\ status[rq[r2].invocation] = "rejected"
(***************************************************************************)
(* Properties of the scheduler (SpecScheduler).                            *)
(***************************************************************************)
\* registerBucketSizeScheduler returns in this step
Registers == sched.registered = "pending" /\ sched'.registered # "pending"
\* a cycle starts in this step
CycleStarts == sched'.cycles = sched.cycles + 1
\* calculateBucketSizeWithLock is called in this step
Invokes(w) == pc[w] = "idle" /\ pc'[w] # "idle"

\* C29: the scheduler is inert while the toggle is disabled.  Registered
\* with the toggle disabled, it adds no job: no cycle ever starts and no
\* invocation is ever made.  A cycle that starts with the toggle disabled
\* ends at once: it scans no session and calls nothing.  Every call is made
\* by a cycle of a registered job that found the toggle enabled.
C29_InertWhileDisabled ==
  /\ [](sched.registered = "no"
         => (sched.cycles = 0 /\ sched.pc = "idle" /\ \A w \in Invocations : pc[w] = "idle"))
  /\ []((sched.cycles > 0 /\ ~sched.enabled)
         => (sched.pc = "idle" /\ sched.keys = <<>> /\ sched.calls = <<>>))
  /\ [](sched.pc # "idle" => (sched.registered = "yes" /\ sched.enabled))
  /\ [][/\ (Registers /\ ~ToggleEnabled) => sched'.registered = "no"
        /\ (CycleStarts /\ ~ToggleEnabled)
             => (~sched'.enabled /\ sched'.pc = "idle" /\ sched'.keys = <<>> /\ pc' = pc)
        /\ CycleStarts => sched.registered = "yes"
        /\ \A w \in Invocations :
             Invokes(w) => (sched.registered = "yes" /\ sched.enabled /\ sched.pc = "call")]_vars

\* a cycle that started with the toggle disabled has ended without a scan
\* or a call, and the toggle is enabled again
C29_Witness ==
  /\ sched.registered = "yes" /\ sched.cycles > 0 /\ ~sched.enabled
  /\ sched.pc = "idle" /\ sched.calls = <<>>
  /\ flag = "on"
  /\ \A w \in Invocations : pc[w] = "idle"
\* the pairs a cycle has to visit: the tracked buckets of every session
\* whose stored credentials parse
TrackedPairs ==
  { pair \in Tokens \X Buckets :
      /\ parseSessionCredentials(RedisGet(redis, sessionKey(pair[1]))) # Absent
      /\ pair[2] \in smembers(redis, sessionBucketKey(pair[1])) }
\* a cycle that found the toggle enabled has ended, and no read of the
\* sessions or of their buckets failed in it
CycleEnded ==
  /\ sched.cycles > 0 /\ sched.enabled /\ sched.pc = "idle"
  /\ sched.failure \in {"none", "call"}

\* C30: a failure while one (session, bucket) pair is processed does not
\* abort the cycle: when the cycle has ended, calculateBucketSizeWithLock has
\* been called for every tracked bucket of every session.
C30_FailureDoesNotAbortCycle ==
  CycleEnded => TrackedPairs \subseteq Range(sched.calls)
(***************************************************************************)
(* Properties of a get that meets a corrupt entry (SpecCorrupt).           *)
(***************************************************************************)
\* the get of request r returns in this step
GetReturns(r) == rq[r].pc # "done" /\ rq'[r].pc = "done" /\ rq'[r].kind = "getCached"
\* what the get of request r finds under its key when it reads
ReadsCorrupt(r, q) ==
  /\ rq[r].pc = "idle" /\ rq'[r].kind = "getCached" /\ rq'[r].q = q
  /\ config.S3_LIST_CACHE_ENABLED
  /\ redis[KeyOf(q)].exists /\ ~JsonParses(redis[KeyOf(q)].value)

\* C35: a get on a key whose stored value does not deserialize returns
\* absent and deletes the entry: the get goes on to the delete, and when it
\* returns the key is absent from the store and the result is absent, as on
\* a miss.
C35_CorruptEntryDeleted ==
  [][\A r \in Requests :
       /\ \A q \in CorruptTuples :
            ReadsCorrupt(r, q) => (rq'[r].pc = "del" /\ rq'[r].corrupt)
       /\ (GetReturns(r) /\ rq'[r].corrupt)
            => (rq'[r].result = Absent /\ ~redis'[KeyOf(rq'[r].q)].exists)
       /\ (GetReturns(r) /\ ~rq'[r].corrupt) => redis' = redis]_vars

\* a get met a corrupt entry and has returned absent; the entry is gone
\* while the entry of the other tuple is still there
C35_Witness ==
  \E r \in Requests :
    /\ rq[r].kind = "getCached" /\ rq[r].pc = "done" /\ rq[r].corrupt
    /\ rq[r].result = Absent
    /\ ~redis[KeyOf(rq[r].q)].exists
    /\ \E q \in CorruptTuples : redis[KeyOf(q)].exists
\* C37: a lookup never resurrects a deleted session.  The renewal of a
\* lookup never creates a record that is not there; once a delete of a token
\* has ended the store holds no record of it, whatever lookups were between
\* their read and their renewal at that moment; and every lookup of the
\* token that starts after the delete returns absent.
C37_NoResurrection ==
  /\ [](\A d, r \in Requests :
          (/\ rq[d].kind = "deleteSession" /\ rq[d].pc = "done"
           /\ r > d /\ rq[r].kind = "requireSession" /\ rq[r].token = rq[d].token)
            => (/\ ~rq[r].authenticated /\ rq[r].result = Absent /\ rq[r].pc # "expire"
                /\ ~redis[sessionKey(rq[d].token)].exists))
  /\ [][\A r \in Requests :
          (rq[r].kind = "requireSession" /\ rq[r].pc = "expire" /\ rq'[r].pc = "done")
            => \A token \in Tokens :
                 ~redis[sessionKey(token)].exists => ~redis'[sessionKey(token)].exists]_vars

\* a lookup read the session, a delete of its token ended, and then the
\* renewal of the lookup found nothing to renew: the record is absent
C37_Witness ==
  \E r, d \in Requests :
    /\ rq[r].kind = "requireSession" /\ rq[r].pc = "done" /\ rq[r].authenticated
    /\ ~rq[r].renewed
    /\ rq[d].kind = "deleteSession" /\ rq[d].pc = "done" /\ rq[d].token = rq[r].token
    /\ now = 0
    /\ ~redis[sessionKey(rq[r].token)].exists
\* C31: each enabled cycle calls calculateBucketSizeWithLock without force
\* exactly once for every tracked bucket of every live session whose stored
\* credentials parse, and for no other pair (cycles in which the store
\* failed to answer the enumeration itself are left aside).
C31_EveryPairOnce ==
  /\ CycleEnded => (/\ Range(sched.calls) = TrackedPairs
                   /\ Len(sched.calls) = Cardinality(TrackedPairs))
  /\ \A w \in Invocations : pc[w] # "idle" => ~args[w].force

\* C38: once a delete of a token has ended, the scheduler starts no call
\* of calculateBucketSizeWithLock with the credentials it read from the
\* session of that token, not even for the buckets that remain in a cycle
\* already under way.
C38_NoCallAfterLogout ==
  [][\A w \in Invocations : Invokes(w) => ~Deleted(sched.token)]_vars

\* C39: a cycle leaves every session record as it is.  No step of the
\* scheduler or of the calls it makes changes the value or the expiry of a
\* session record, so every record keeps the expiry it had and is gone once
\* the clock reaches it, cycles or not.
C39_SessionsUntouched ==
  /\ [](\A token \in Tokens :
          redis[sessionKey(token)].exists
            => (/\ redis[sessionKey(token)] \in { store[sessionKey(token)] : store \in SchedStores }
                /\ redis[sessionKey(token)].expiresAt > now))
  /\ [][now' = now
          => \A token \in Tokens : redis'[sessionKey(token)] = redis[sessionKey(token)]]_vars

\* a cycle read the sessions and called the aggregator for both pairs; later
\* the clock passed the lifetime of the sessions and they are gone
C39_Witness ==
  /\ CycleEnded /\ Len(sched.calls) = 2
  /\ now >= SESSION_TTL_SECONDS * 1000
  /\ \A token \in Tokens : ~redis[sessionKey(token)].exists

(***************************************************************************)
(* Properties of the stored bucket-size results (SpecScopes).              *)
(***************************************************************************)
\* the stores of a result for the pair that came before request r
StoresBefore(r, b, k) ==
  { d \in 1..(r - 1) : /\ rq[d].kind = "storeBucketSizeResult"
                       /\ rq[d].bucketName = b /\ rq[d].accessKeyId = k }
\* the result stored last for the pair before request r, if the store still
\* holds it at time t
LastStored(r, b, k, t) ==
  IF StoresBefore(r, b, k) = {} THEN Absent
  ELSE LET d == CHOOSE d \in StoresBefore(r, b, k) : \A e \in StoresBefore(r, b, k) : e <= d IN
       IF t < rq[d].at + getBucketSizeCacheTtlSeconds(rq[d].value.objectCount) * 1000
       THEN rq[d].value ELSE Absent

\* C32: results are keyed by bucket and access key id.  Two pairs never
\* share a key; a store writes the whole result under the key of its pair
\* and changes no other entry; a read returns the result stored last for its
\* pair as long as the store holds it, fresh or not, absent if there was
\* none, and changes nothing.
C32_OneResultPerPair ==
  /\ [](\A b1 \in Buckets, b2 \in Buckets, k1 \in ScopeKeys, k2 \in ScopeKeys :
          <<b1, k1>> # <<b2, k2>> => bucketSizeKey(b1, k1) # bucketSizeKey(b2, k2))
  /\ [][\A r \in Requests :
          /\ Calls(r, "storeBucketSizeResult")
               => /\ redis'[bucketSizeKey(rq'[r].bucketName, rq'[r].accessKeyId)].value
                       = rq'[r].value
                  /\ \A b \in Buckets, k \in ScopeKeys :
                       <<b, k>> # <<rq'[r].bucketName, rq'[r].accessKeyId>>
                         => getCachedBucketSize(redis', b, k) = getCachedBucketSize(redis, b, k)
          /\ Calls(r, "getCachedBucketSize")
               => /\ redis' = redis
                  /\ rq'[r].result = LastStored(r, rq'[r].bucketName, rq'[r].accessKeyId, now)]_vars

\* a result for b1 was stored under the second access key id; a read for it
\* returned that result although it is no longer fresh, and the first
\* access key id has no result for b1
C32_Witness ==
  \E d, r \in Requests :
    /\ rq[d].kind = "storeBucketSizeResult" /\ rq[d].accessKeyId = "AK2"
    /\ rq[r].kind = "getCachedBucketSize" /\ rq[r].accessKeyId = "AK2"
    /\ rq[r].bucketName = rq[d].bucketName
    /\ rq[r].result = rq[d].value
    /\ ~isBucketSizeResultFresh(rq[r].result, now)
    /\ getCachedBucketSize(redis, rq[d].bucketName, "AK1") = Absent

(***************************************************************************)
(* Properties of the lifetime of a stored result (SpecStale).              *)
(***************************************************************************)
FreshnessWindowMs(result) == getBucketSizeCacheTtlSeconds(result.objectCount) * 1000
\* invocation w completes its read of the stored result in this step
ReadsStored(w) == pc[w] = "getCached" /\ pc'[w] \in {"done", "setLock"} /\ status'[w] # "rejected"

\* C40 (as stated): every stored result a read returns is still fresh, and
\* an invocation without force goes on to the lock only when no result is
\* stored.
C40_NeverObservedStale ==
  [][\A w \in Invocations :
       ReadsStored(w)
         => /\ Exists(ResultKeyOf(w))
                 => isBucketSizeResultFresh(redis[ResultKeyOf(w)].value, now)
            /\ pc'[w] = "setLock" => ~Exists(ResultKeyOf(w))]_vars

\* C40 (amended): the time-to-live of a stored result is its freshness
\* window counted from the store, which is not earlier than calculatedAt.
\* A stored result is never dropped while it is fresh, and its age stays
\* below the window plus the time between its calculation and its store; an
\* invocation without force skips exactly when a result is stored and
\* fresh, and goes on to the lock when none is stored or the stored one is
\* stale.
C40_StaleOnlyByStoreDelay ==
  /\ [](\A key \in ResultKeys :
          Exists(key)
            => LET result == redis[key].value
                   delay == redis[key].expiresAt - FreshnessWindowMs(result) - result.calculatedAt
               IN /\ delay >= 0 /\ delay <= MaxSmallTicks * SmallStepMs
                  /\ now - result.calculatedAt < FreshnessWindowMs(result) + delay)
  /\ [][\A w \in Invocations :
          ReadsStored(w)
            => LET fresh == /\ Exists(ResultKeyOf(w))
                            /\ isBucketSizeResultFresh(redis[ResultKeyOf(w)].value, now)
               IN /\ fresh <=> (pc'[w] = "done" /\ status'[w] = "already-fresh")
                  /\ ~fresh <=> pc'[w] = "setLock"]_vars

\* an invocation without force read a stored result that is no longer fresh
\* and went on to the lock
C40_Witness ==
  \E w \in Invocations :
    /\ pc[w] = "setLock" /\ ~args[w].force
    /\ Exists(ResultKeyOf(w))
    /\ ~isBucketSizeResultFresh(redis[ResultKeyOf(w)].value, now)

(***************************************************************************)
(* Properties of the key namespaces (SpecNamespaces).                      *)
(***************************************************************************)
\* a call of the listing cache acts in this step: put, invalidateBucket,
\* invalidateByPrefix, or a get with its delete of a corrupt entry
ListingCacheStep ==
  \E r \in Requests :
    /\ rq'[r] # rq[r]
    /\ rq'[r].kind \in {"put", "invalidateBucket", "invalidateByPrefix", "getCached"}

\* C34: the namespaces of the store are independent.  A call of the listing
\* cache leaves every session, tracked-bucket set, bucket-size result and
\* lock as it is; every other step (sessions, the aggregator, its routes and
\* its scheduler) leaves every listing-cache entry as it is; the keys the
\* scheduler's scan yields are keys of sessions, never of tracked-bucket
\* sets.
C34_NamespacesIndependent ==
  /\ [](\A i \in 1..Len(sched.keys) :
          sched.keys[i] \in SessionKeys /\ sched.keys[i] \notin SessionBucketKeys)
  /\ [][ListingCacheStep
          => \A key \in Keys \ ListCacheKeys : redis'[key] = redis[key]]_vars
  /\ [][~ListingCacheStep
          => \A key \in ListCacheKeys : redis'[key] = redis[key]]_vars

\* with entries in every namespace, the scheduler has scanned the sessions
\* and stored a result, a session was created, and an invalidation of the
\* listing cache has deleted entries
C34_Witness ==
  /\ \E r \in Requests : rq[r].kind = "invalidateBucket" /\ rq[r].result > 0
  /\ \E r \in Requests : rq[r].kind = "createSession"
  /\ Len(sched.calls) > 0
  /\ redis[bucketSizeKey("b1", "AK1")].exists
  /\ redis[bucketSizeLockKey("b2", "AK1")].exists
  /\ redis[sessionBucketKey("s1")].exists
  /\ \E key \in ListCacheKeys : redis[key].exists

(***************************************************************************)
(* Listings racing with mutations (SpecRoutes).                            *)
(***************************************************************************)
\* the mutations of a session whose invalidation has run to its end
Invalidated ==
  { u \in Requests : /\ rq[u].kind = "mutation" /\ rq[u].pc = "done"
                     /\ ~rq[u].invalidationError /\ rq[u].sessionToken # Undefined }

\* C36: once a mutation has succeeded upstream and its invalidation has
\* finished, the cache holds no page of the session for the root prefix or
\* the directory of the mutation that was fetched from the upstream before
\* the mutation, however the list requests and their unawaited cache
\* writes interleave with it.
C36_NoStalePageRecached ==
  CacheEnabled
    => \A u \in Invalidated :
         \A q \in RouteListings :
           (q.sessionToken = rq[u].sessionToken /\ q.bucket = rq[u].bucket)
             => \/ Cached(redis, q) = Absent
                \/ Cached(redis, q).rev >= rq[u].rev

(***************************************************************************)
(* Termination of the enumeration (SpecEndless).                           *)
(***************************************************************************)
\* invocation w sends one more request to the upstream in this step
SendsNext(w) == pc[w] = "list" /\ pc'[w] = "list" /\ loc'[w] # loc[w]

\* C33: with an upstream that answers every request, an invocation that
\* holds the lock and is listing ends: it stores its result, returns
\* "calculated" and no longer owns the lock, even if every answer carries a
\* continuation token.  It sends a further request only while the elapsed
\* time is within the maximum duration and the object count is below the
\* cap, and leaves the store step with its result stored.
C33_ComputationEnds ==
  /\ \A w \in Invocations :
       (pc[w] = "list")
         ~> (/\ pc[w] = "done" /\ status[w] = "calculated"
             /\ LockOwnerAt(LockKeyOf(w)) # w)
  /\ [][\A w \in Invocations :
          /\ SendsNext(w)
               => /\ now - loc[w].startedAt <= BUCKET_SIZE_MAX_DURATION_MS
                  /\ loc'[w].objectCount < BUCKET_SIZE_MAX_OBJECTS
          /\ (pc[w] = "store" /\ pc'[w] = "getLock")
               => redis'[ResultKeyOf(w)].value = loc[w].pending]_vars

\* an invocation has ended on its timeout: the upstream was still returning
\* continuation tokens and the cap was not reached; the result is stored as
\* approximate and the lock is gone
C33_Witness ==
  \E w \in Invocations :
    /\ pc[w] = "done" /\ status[w] = "calculated" /\ hist[w].calls >= 2
    /\ Exists(ResultKeyOf(w))
    /\ redis[ResultKeyOf(w)].value.isApproximate
    /\ redis[ResultKeyOf(w)].value.objectCount < BUCKET_SIZE_MAX_OBJECTS
    /\ ~Exists(LockKeyOf(w))

====
